---- MODULE Spec2Model ----
(***************************************************************************)
(* Resilience layer of the movie-dashboard BFF: the circuit breaker        *)
(* (utils/circuit_breaker.py), the response cache (utils/cache_manager.py),*)
(* the TMDB dependency client (services/tmdb_client.py) and the            *)
(* aggregation endpoints (routers/dashboard_router.py).                    *)
(*                                                                         *)
(* The program runs on one asyncio event loop: the code between two        *)
(* suspension points (await of real I/O) is one atomic step.               *)
(***************************************************************************)
EXTENDS Integers, Sequences, FiniteSets, TLC

(***************************************************************************)
(* Bounds of the model.                                                    *)
(***************************************************************************)
NCallers == 2
MaxTime == 4
NReqs == 1
MaxCacheTime == 2
MaxClientTime == 1

(***************************************************************************)
(* Program constants.                                                      *)
(***************************************************************************)
CIRCUIT_BREAKER_FAILURE_THRESHOLD == 5
CIRCUIT_BREAKER_TIMEOUT_SECONDS == 60
CACHE_TTL == 300

\* Python's None for an optional timestamp: <<>>; a set timestamp t: <<t>>.
None == <<>>
Some(t) == <<t>>

\* CircuitState
CLOSED == "closed"
OPEN == "open"
HALF_OPEN == "half_open"
CircuitState == {CLOSED, OPEN, HALF_OPEN}

Callers == 1..NCallers

\* Constructor arguments tried; 0 stands for an omitted (None) or zero argument,
\* which "or" replaces by the configured default.
CtorThresholds == {0, 1, 2}
CtorTimeouts == {0, 1, 2}

VARIABLES
    \* settings.CIRCUIT_BREAKER_ENABLED
    cbEnabled,
    \* CircuitBreaker fields
    failure_threshold, timeout, failure_count, last_failure_time, state,
    \* time.time()
    now,
    \* callers of CircuitBreaker.call: "idle" or "running" (suspended in await func())
    pc,
    \* per running call: "bypass" (breaker disabled at entry) or "tracked"
    mode,
    \* history: the last breaker event, the run of failures without a success,
    \* the run of back-to-back failure outcomes and failure_count before it,
    \* the probes (calls that moved OPEN -> HALF_OPEN) still running, and the
    \* running calls admitted while a probe was outstanding
    ev, streak, burst, burstBase, probeOut, duringProbe,
    \* one aggregation request: the request, its fan-out calls, its response
    areq, tasks, resp,
    \* CacheManager.enabled, CacheManager.redis_client (None or a client), and
    \* the backing store: key -> [text, exp], visible while now < exp
    cache_enabled, redis_client, store,
    \* calls of the TMDB client in progress, and the last client event (its
    \* kind, call, outcome, the value returned, whether the cache I/O worked)
    creq, cev,
    \* (cev.prev: the call completed last, if it stored its network result)
    \* key derivation: two wrapper calls and the requests derived from them
    kcalls, kreqs,
    \* the direct operation of the cache that returned last, with what it
    \* returned (NoCacheOp once another step of the cache has been taken),
    \* and per key the value and expiry of the last set that worked (history)
    cop, written,
    \* per coroutine calling the cache directly: the call it is suspended in
    \* (await of the store), and where connect() is ("idle", or "ping" while
    \* suspended in await self.redis_client.ping())
    cio, cconn,
    \* the mock user service: its two in-memory stores (dicts in insertion
    \* order) and the response to the last request it served
    favorites_store, watchlist_store, ures

bvars == <<cbEnabled, failure_threshold, timeout, failure_count, last_failure_time,
           state, now, pc, mode, ev, streak, burst, burstBase, probeOut,
           duringProbe>>

avars == <<areq, tasks, resp>>

cvars == <<cache_enabled, redis_client, store, creq, cev>>

pvars == <<kcalls, kreqs, cop, written, cio, cconn>>

uvars == <<favorites_store, watchlist_store, ures>>

vars == <<bvars, avars, cvars, pvars, uvars>>

\* what the breaker's callers, an aggregation request, and a call of the TMDB
\* client leave alone
notBreaker == <<avars, cvars, pvars, uvars>>
notAgg == <<bvars, cvars, pvars, uvars>>
\* what a catalog call of the fan-out leaves alone besides the request: it
\* runs inside the TMDB client's breaker (tmdb_client.py line 84)
notCatalog == <<cbEnabled, failure_threshold, timeout, now, pc, mode, ev, streak,
                burst, burstBase, probeOut, duringProbe, cvars, pvars, uvars>>
notClient == <<cbEnabled, failure_threshold, timeout, now, pc, mode, ev, streak,
               burst, burstBase, probeOut, duringProbe, avars, pvars, uvars>>

----------------------------------------------------------------------------
(***************************************************************************)
(* CircuitBreaker                                                          *)
(***************************************************************************)

\* __init__: failure_threshold or settings.CIRCUIT_BREAKER_FAILURE_THRESHOLD
CtorThreshold(arg) == IF arg = 0 THEN CIRCUIT_BREAKER_FAILURE_THRESHOLD ELSE arg

\* __init__: timeout or settings.CIRCUIT_BREAKER_TIMEOUT_SECONDS
CtorTimeout(arg) == IF arg = 0 THEN CIRCUIT_BREAKER_TIMEOUT_SECONDS ELSE arg

\* time.time() - self.last_failure_time >= self.timeout
TimeoutElapsed_Strict(t, lft, to) == t - lft[1] > to
TimeoutElapsed(t, lft, to) == t - lft[1] >= to

\* call, lines 45-50: what an enabled breaker does with an arriving call
Admission(st, t, lft, to) ==
    IF st = OPEN
    THEN IF TimeoutElapsed(t, lft, to) THEN "probe" ELSE "reject"
    ELSE "pass"

\* self.failure_count += 1
IncFailureCount_Assign(fc) == 1
IncFailureCount(fc) == fc + 1

\* self.failure_count >= self.failure_threshold
ThresholdReached_Strict(fc, th) == fc > th
ThresholdReached(fc, th) == fc >= th

\* call, lines 56-59: the state after a successful operation
StateOnSuccess_Keep(st) == st
StateOnSuccess(st) == IF st = HALF_OPEN THEN CLOSED ELSE st
CountOnSuccess_Keep(st, fc) == fc
CountOnSuccess_Always(st, fc) == 0
CountOnSuccess(st, fc) == IF st = HALF_OPEN THEN 0 ELSE fc

\* call, lines 72-74: the state after a failed operation
StateOnFailure(st, fc, th) == IF ThresholdReached(fc, th) THEN OPEN ELSE st

NoEvent == [kind |-> "init", caller |-> 0, early |-> FALSE, probe |-> FALSE]

Running == {c \in Callers : pc[c] = "running"}

\* the call arrives before open_timeout has elapsed since the last recorded failure
Early == last_failure_time # None
         /\ ~TimeoutElapsed(now, last_failure_time, timeout)

InitBreaker ==
    /\ cbEnabled \in BOOLEAN
    /\ \E a \in CtorThresholds : failure_threshold = CtorThreshold(a)
    /\ \E a \in CtorTimeouts : timeout = CtorTimeout(a)
    /\ failure_count = 0
    /\ last_failure_time = None
    /\ state = CLOSED
    /\ now = 0
    /\ pc = [c \in Callers |-> "idle"]
    /\ mode = [c \in Callers |-> "tracked"]
    /\ ev = NoEvent
    /\ streak = 0
    /\ burst = 0
    /\ burstBase = 0
    /\ probeOut = {}
    /\ duringProbe = {}

\* call, line 41, with the test dropped: no call is ever bypassed
Bypassed_Never(enabled) == FALSE

\* call, line 41: if not settings.CIRCUIT_BREAKER_ENABLED
Bypassed(enabled) == ~enabled

\* call, line 41-42: the breaker is disabled, the operation is awaited directly
CallBypass(c) ==
    /\ pc[c] = "idle"
    /\ Bypassed(cbEnabled)
    /\ pc' = [pc EXCEPT ![c] = "running"]
    /\ mode' = [mode EXCEPT ![c] = "bypass"]
    /\ ev' = [kind |-> "admit", caller |-> c, early |-> Early, probe |-> FALSE]
    /\ UNCHANGED <<cbEnabled, failure_threshold, timeout, failure_count,
                   last_failure_time, state, now, streak, burst, burstBase,
                   probeOut, duringProbe>>
    /\ UNCHANGED notBreaker

\* call, lines 45-53 up to the suspension in await func(): the call is admitted
CallAdmit(c) ==
    /\ pc[c] = "idle"
    /\ ~Bypassed(cbEnabled)
    /\ Admission(state, now, last_failure_time, timeout) \in {"pass", "probe"}
    /\ state' = IF Admission(state, now, last_failure_time, timeout) = "probe"
                THEN HALF_OPEN ELSE state
    /\ pc' = [pc EXCEPT ![c] = "running"]
    /\ mode' = [mode EXCEPT ![c] = "tracked"]
    /\ probeOut' = IF Admission(state, now, last_failure_time, timeout) = "probe"
                   THEN probeOut \cup {c} ELSE probeOut
    /\ duringProbe' = IF probeOut # {} THEN duringProbe \cup {c} ELSE duringProbe
    /\ ev' = [kind |-> "admit", caller |-> c, early |-> Early,
              probe |-> (Admission(state, now, last_failure_time, timeout) = "probe")]
    /\ UNCHANGED <<cbEnabled, failure_threshold, timeout, failure_count,
                   last_failure_time, now, streak, burst, burstBase>>
    /\ UNCHANGED notBreaker

\* the raise of line 50 taken as a failure of the call (as if it stood inside
\* the try block of lines 52-76)
CountOnReject_AsFailure(fc) == fc + 1

\* call, line 50: the raise stands before the try block of line 52, so the
\* except clause of lines 63-76 does not count it
CountOnReject(fc) == fc

\* call, line 50: raise Exception("Circuit ... is OPEN - failing fast")
CallReject(c) ==
    /\ pc[c] = "idle"
    /\ ~Bypassed(cbEnabled)
    /\ Admission(state, now, last_failure_time, timeout) = "reject"
    /\ failure_count' = CountOnReject(failure_count)
    /\ ev' = [kind |-> "reject", caller |-> c, early |-> Early, probe |-> FALSE]
    /\ UNCHANGED <<cbEnabled, failure_threshold, timeout,
                   last_failure_time, state, now, pc, mode, streak, burst,
                   burstBase, probeOut, duringProbe>>
    /\ UNCHANGED notBreaker

\* call, lines 53-61 (or line 42 when bypassed): the operation returned
OpSucceeds(c) ==
    /\ pc[c] = "running"
    /\ pc' = [pc EXCEPT ![c] = "idle"]
    /\ IF mode[c] = "tracked"
       THEN /\ state' = StateOnSuccess(state)
            /\ failure_count' = CountOnSuccess(state, failure_count)
       ELSE UNCHANGED <<state, failure_count>>
    /\ ev' = [kind |-> "success", caller |-> c, early |-> Early,
              probe |-> (c \in probeOut)]
    /\ streak' = 0
    /\ burst' = 0
    /\ burstBase' = 0
    /\ probeOut' = probeOut \ {c}
    /\ duringProbe' = duringProbe \ {c}
    /\ UNCHANGED <<cbEnabled, failure_threshold, timeout, last_failure_time, now,
                   mode>>
    /\ UNCHANGED notBreaker

\* call, lines 63-76 (or line 42 when bypassed): the operation raised
OpFails(c) ==
    /\ pc[c] = "running"
    /\ pc' = [pc EXCEPT ![c] = "idle"]
    /\ IF mode[c] = "tracked"
       THEN /\ failure_count' = IncFailureCount(failure_count)
            /\ last_failure_time' = Some(now)
            /\ state' = StateOnFailure(state, failure_count', failure_threshold)
       ELSE UNCHANGED <<failure_count, last_failure_time, state>>
    /\ ev' = [kind |-> "failure", caller |-> c, early |-> Early,
              probe |-> (c \in probeOut)]
    /\ streak' = IF streak < failure_threshold THEN streak + 1 ELSE streak
    /\ burst' = IF ev.kind = "failure" THEN burst + 1 ELSE 1
    /\ burstBase' = IF ev.kind = "failure" THEN burstBase ELSE failure_count
    /\ probeOut' = probeOut \ {c}
    /\ duringProbe' = duringProbe \ {c}
    /\ UNCHANGED <<cbEnabled, failure_threshold, timeout, now, mode>>
    /\ UNCHANGED notBreaker

\* reset(), line 81, without the assignment: the state is left as it is
ResetState_Keep(st) == st

\* reset(), line 81: self.state = CircuitState.CLOSED
ResetState(st) == CLOSED

\* reset(), lines 78-83: unconditional, whatever the state and the calls in flight
Reset ==
    /\ state' = ResetState(state)
    /\ failure_count' = 0
    /\ last_failure_time' = None
    /\ ev' = [kind |-> "reset", caller |-> 0, early |-> FALSE, probe |-> FALSE]
    /\ streak' = 0
    /\ burst' = 0
    /\ burstBase' = 0
    /\ UNCHANGED <<cbEnabled, failure_threshold, timeout, now, pc, mode,
                   probeOut, duringProbe>>
    /\ UNCHANGED notBreaker

\* the clock advances
Tick ==
    /\ now < MaxTime
    /\ now' = now + 1
    /\ UNCHANGED <<cbEnabled, failure_threshold, timeout, failure_count,
                   last_failure_time, state, pc, mode, ev, streak, burst,
                   burstBase, probeOut, duringProbe>>
    /\ UNCHANGED notBreaker

\* settings.CIRCUIT_BREAKER_ENABLED is read anew by every call (line 41): the
\* flag is switched while the service runs, whatever the breaker's state
Configure(b) ==
    /\ cbEnabled # b
    /\ cbEnabled' = b
    /\ UNCHANGED <<failure_threshold, timeout, failure_count, last_failure_time,
                   state, now, pc, mode, ev, streak, burst, burstBase, probeOut,
                   duringProbe>>
    /\ UNCHANGED notBreaker

NextBreaker ==
    \/ \E c \in Callers : CallBypass(c)
    \/ \E c \in Callers : CallAdmit(c)
    \/ \E c \in Callers : CallReject(c)
    \/ \E c \in Callers : OpSucceeds(c)
    \/ \E c \in Callers : OpFails(c)
    \/ Reset
    \/ Tick


----------------------------------------------------------------------------
(***************************************************************************)
(* Aggregation endpoints (routers/dashboard_router.py)                     *)
(***************************************************************************)

\* [:10] for cast and crew, [:6] for similar movies, [:12] for dashboard lists
CastLimit == 10
SimilarLimit == 6
ListLimit == 12
\* UserMovieData.user_rating: Field(None, ge=1, le=5)
RatingMin == 1
RatingMax == 5

MovieIds == {1, 2}
Endpoints == {"feed", "details", "complete", "search"}
Pages == {1, 2}
TaskNames == {"primary", "trending", "favorites", "watchlist"}

\* the calls one request fans out to: one catalog call (two for the complete
\* dashboard: popular and trending), favorites and watchlist
FanOut(ep) ==
    IF ep = "complete" THEN {"primary", "trending", "favorites", "watchlist"}
    ELSE {"primary", "favorites", "watchlist"}

\* what a gathered call yields: a value, or the exception it raised
Value(v) == [ok |-> TRUE, val |-> v]
Raised == [ok |-> FALSE, val |-> <<>>]
IsException(r) == ~r.ok

\* bodies the catalog dependency answers with. A JSON object is a record of
\* the keys it carries: a key the object lacks is not in its DOMAIN
Movie(i) == [id |-> i, title |-> "movie-" \o ToString(i)]
CastMember(i) ==
    [id |-> i, name |-> "person-" \o ToString(i), character |-> "role"]
CrewMember(i) ==
    [id |-> i, name |-> "person-" \o ToString(i), job |-> "Director",
     department |-> "Directing"]
\* the object without one of its keys
Without(obj, key) == [k \in DOMAIN obj \ {key} |-> obj[k]]
\* lists of n entries, to answer with more entries than a response keeps
Movies(n) == [i \in 1..n |-> Movie(i)]
Cast(n) == [i \in 1..n |-> CastMember(i)]
Crew(n) == [i \in 1..n |-> CrewMember(i)]
\* the list with its last entry lacking a key
LastWithout(list, key) ==
    [list EXCEPT ![Len(list)] = Without(list[Len(list)], key)]
\* lists a response model accepts, a list with an entry that has no title,
\* and a list whose only entry without title lies beyond the limit
ResultLists == {<<>>, <<Movie(1)>>, <<Movie(1), Movie(2)>>, <<Movie(2), Movie(1)>>,
                Movies(ListLimit + 1),
                LastWithout(<<Movie(1), Movie(2)>>, "title"),
                LastWithout(Movies(ListLimit + 1), "title")}
ListBodies ==
    {[results |-> r, total_pages |-> tp, total_results |-> tp * 20] :
        r \in ResultLists, tp \in {1, 3}}
\* the body of get_movie_details with append_to_response credits, reviews,
\* similar; the fields every response model leaves optional are left out
DetailBody(mid, cast, crew, similar) ==
    [id |-> mid, title |-> "movie-" \o ToString(mid),
     credits |-> [cast |-> cast, crew |-> crew],
     reviews |-> [total_results |-> Len(cast)],
     similar |-> [results |-> similar]]
\* bodies the response model accepts; then bodies with a crew entry without
\* department (the body of tests/test_dashboard.py, lines 124-142), a cast
\* entry without character, a similar movie without title, no title of
\* their own, and a crew whose only entry without department lies beyond
\* the limit
DetailBodies(mid) ==
    {DetailBody(mid, Cast(n), Crew(n), sm) :
        n \in {0, 2, CastLimit + 1},
        sm \in {<<>>, <<Movie(2)>>, Movies(SimilarLimit + 1)}}
    \cup {DetailBody(mid, Cast(1), LastWithout(Crew(1), "department"), <<>>),
          DetailBody(mid, LastWithout(Cast(1), "character"), Crew(1), <<>>),
          DetailBody(mid, Cast(1), Crew(1), LastWithout(Movies(2), "title")),
          Without(DetailBody(mid, Cast(1), Crew(1), <<>>), "title"),
          DetailBody(mid, Cast(CastLimit + 1),
                     LastWithout(Crew(CastLimit + 1), "department"), <<>>)}
CatalogOutcomes(ep, mid) ==
    {Raised} \cup {Value(b) : b \in IF ep = "details" THEN DetailBodies(mid)
                                    ELSE ListBodies}

\* answers of the preferences dependency: the call raises, or returns a body
\* that lacks the list, or returns the list
Fav(i, r) == [movie_id |-> Some(i), rating |-> r, added_date |-> Some("2024-01-15")]
Wl(i) == [movie_id |-> Some(i), rating |-> None, added_date |-> Some("2024-01-20")]
NoId == [movie_id |-> None, rating |-> None, added_date |-> None]
FavLists == {<<>>, <<Fav(1, Some(5))>>, <<Fav(1, Some(5)), Fav(2, Some(4))>>,
             <<Fav(1, Some(9))>>, <<Fav(2, None)>>, <<NoId>>,
             <<Fav(1, Some(5)), NoId>>}
WlLists == {<<>>, <<Wl(2)>>, <<Wl(1), Wl(2)>>}
PrefOutcomes(lists) ==
    {[kind |-> "raise", items |-> <<>>], [kind |-> "nokey", items |-> <<>>]}
        \cup {[kind |-> "ok", items |-> l] : l \in lists}

Min(a, b) == IF a < b THEN a ELSE b
\* s[-n:], the last n entries
Take_Tail(s, n) == SubSeq(s, Len(s) - Min(n, Len(s)) + 1, Len(s))
\* s[:n]
Take(s, n) == SubSeq(s, 1, Min(n, Len(s)))

EmptyMap == <<>>
\* {item["movie_id"]: item for item in items}: a later entry replaces an earlier one
ToMap(items) ==
    [k \in {items[i].movie_id[1] : i \in DOMAIN items} |->
        items[CHOOSE i \in DOMAIN items :
                /\ items[i].movie_id[1] = k
                /\ \A j \in DOMAIN items : items[j].movie_id[1] = k => j <= i]]

\* _fetch_user_favorites / _fetch_user_watchlist: the try body raises when the
\* call raises or an entry has no movie_id; any exception is caught and an
\* empty mapping returned
FetchAttempt(svc) ==
    IF svc.kind = "raise" THEN Raised
    ELSE LET items == IF svc.kind = "nokey" THEN <<>> ELSE svc.items
         IN IF \E i \in DOMAIN items : items[i].movie_id = None
            THEN Raised
            ELSE Value(ToMap(items))
\* the helpers without their except clause
FetchUserMapping_Propagate(svc) == FetchAttempt(svc)
FetchUserMapping(svc) ==
    IF IsException(FetchAttempt(svc)) THEN Value(EmptyMap) ELSE FetchAttempt(svc)

\* if isinstance(favorites, Exception): favorites = {}
OrEmpty(r) == IF IsException(r) THEN EmptyMap ELSE r.val

\* favorites.get(movie_id, {}).get(field)
Lookup(m, k, field) == IF k \in DOMAIN m THEN m[k][field] ELSE None

\* models/movie_models.py: the fields of a response model that have no
\* default (EnrichedMovie inherits those of Movie, EnrichedMovieDetails those
\* of MovieDetails)
Required(model) ==
    CASE model = "CastMember" -> {"id", "name", "character"}
      [] model = "CrewMember" -> {"id", "name", "job", "department"}
      [] model \in {"Movie", "EnrichedMovie"} -> {"id", "title"}
      [] model \in {"MovieDetails", "EnrichedMovieDetails"} -> {"id", "title"}
\* the validation a response model runs on an object handed to it: it raises
\* when a required field is missing
Accepts(model, obj) == Required(model) \subseteq DOMAIN obj
AcceptsAll(model, list) == \A i \in DOMAIN list : Accepts(model, list[i])

\* _enrich_movie with the two mappings taken for each other
EnrichMovie_Swapped(movie, favorites, watchlist) ==
    IF ~Accepts("EnrichedMovie", movie) THEN Raised
    ELSE Value([id |-> movie.id,
                title |-> movie.title,
                is_favorite |-> movie.id \in DOMAIN watchlist,
                is_in_watchlist |-> movie.id \in DOMAIN favorites,
                user_rating |-> IF movie.id \in DOMAIN favorites
                                THEN favorites[movie.id].rating ELSE None])

\* _enrich_movie: EnrichedMovie(**movie, is_favorite=..., is_in_watchlist=...,
\* user_rating=...) returns the annotated movie, or raises when the model
\* rejects the movie
EnrichMovie(movie, favorites, watchlist) ==
    IF ~Accepts("EnrichedMovie", movie) THEN Raised
    ELSE Value([id |-> movie.id,
                title |-> movie.title,
                is_favorite |-> movie.id \in DOMAIN favorites,
                is_in_watchlist |-> movie.id \in DOMAIN watchlist,
                user_rating |-> Lookup(favorites, movie.id, "rating")])

\* [_enrich_movie(movie, favorites, watchlist) for movie in movies]: the list,
\* or the exception of the first entry that raises
EnrichAll(movies, favorites, watchlist) ==
    LET enriched == [i \in DOMAIN movies |->
                        EnrichMovie(movies[i], favorites, watchlist)]
    IN IF \E i \in DOMAIN movies : IsException(enriched[i]) THEN Raised
       ELSE Value([i \in DOMAIN movies |-> enriched[i].val])

\* raise HTTPException(status_code=500, ...)
Http500 == [status |-> 500]

\* get_personalized_feed, lines 130-151: an exception of the enrichment is
\* answered 500
FeedBody(page, body, favorites, watchlist) ==
    LET enriched_movies == EnrichAll(body.results, favorites, watchlist)
    IN IF IsException(enriched_movies) THEN Http500
       ELSE [status |-> 200,
             movies |-> enriched_movies.val,
             total_pages |-> body.total_pages,
             current_page |-> page,
             total_results |-> body.total_results,
             favorites_count |-> Cardinality(DOMAIN favorites),
             watchlist_count |-> Cardinality(DOMAIN watchlist)]

\* get_personalized_feed, lines 117-151
FeedResponse(page, prim, fav, wl) ==
    IF IsException(prim) THEN Http500
    ELSE FeedBody(page, prim.val, OrEmpty(fav), OrEmpty(wl))

\* UserMovieData validation: user_rating is None or within 1..5
RatingValid(r) == r = None \/ (r[1] >= RatingMin /\ r[1] <= RatingMax)

\* EnrichedMovieDetails(**movie_details, user_data=..., cast=cast, crew=crew,
\* reviews_count=..., similar_movies=similar), lines 215-222: the model
\* validates the body and the entries of the three lists handed to it
DetailsAccepted(movie_details, cast, crew, similar) ==
    /\ Accepts("EnrichedMovieDetails", movie_details)
    /\ AcceptsAll("CastMember", cast)
    /\ AcceptsAll("CrewMember", crew)
    /\ AcceptsAll("Movie", similar)

\* get_enriched_movie_details, lines 186-228: the catalog call raised (line
\* 187), UserMovieData raised (line 198) or EnrichedMovieDetails raised (line
\* 215), each answered 500; otherwise the enriched details
DetailsResponse(mid, prim, fav, wl) ==
    IF IsException(prim) THEN Http500
    ELSE LET movie_details == prim.val
             favorites == OrEmpty(fav)
             watchlist == OrEmpty(wl)
             rating == Lookup(favorites, mid, "rating")
             cast == Take(movie_details.credits.cast, CastLimit)
             crew == Take(movie_details.credits.crew, CastLimit)
             similar == Take(movie_details.similar.results, SimilarLimit)
         IN IF ~RatingValid(rating) THEN Http500
            ELSE IF ~DetailsAccepted(movie_details, cast, crew, similar)
            THEN Http500
            ELSE [status |-> 200,
                  id |-> movie_details.id,
                  title |-> movie_details.title,
                  user_data |->
                      [is_favorite |-> mid \in DOMAIN favorites,
                       is_in_watchlist |-> mid \in DOMAIN watchlist,
                       user_rating |-> rating,
                       added_to_favorites_date |-> Lookup(favorites, mid, "added_date"),
                       added_to_watchlist_date |-> Lookup(watchlist, mid, "added_date")],
                  cast |-> cast,
                  crew |-> crew,
                  reviews_count |-> movie_details.reviews.total_results,
                  similar_movies |-> similar]

RECURSIVE SumRatings(_, _)
SumRatings(m, keys) ==
    IF keys = {} THEN 0
    ELSE LET k == CHOOSE x \in keys : TRUE
         IN m[k].rating[1] + SumRatings(m, keys \ {k})

\* the mean taken over every favorite, rated or not
AvgRating_OverAll(favorites) ==
    LET rated == {k \in DOMAIN favorites : favorites[k].rating # None}
    IN IF DOMAIN favorites = {} THEN None
       ELSE Some(<<SumRatings(favorites, rated), Cardinality(DOMAIN favorites)>>)

\* get_complete_dashboard, lines 292-298: None, or the mean as <<sum, count>>
AvgRating(favorites) ==
    LET rated == {k \in DOMAIN favorites : favorites[k].rating # None}
    IN IF rated = {} THEN None
       ELSE Some(<<SumRatings(favorites, rated), Cardinality(rated)>>)

\* popular_response.get("results", [])[:12], or [] when the call failed
ListOrEmpty(r) == IF IsException(r) THEN <<>> ELSE Take(r.val.results, ListLimit)

\* get_complete_dashboard, lines 265-320: an exception of the enrichment is
\* answered 500
CompleteResponse(pop, trend, fav, wl) ==
    LET favorites == OrEmpty(fav)
        watchlist == OrEmpty(wl)
        enriched_popular == EnrichAll(ListOrEmpty(pop), favorites, watchlist)
        enriched_trending == EnrichAll(ListOrEmpty(trend), favorites, watchlist)
    IN IF IsException(enriched_popular) \/ IsException(enriched_trending)
       THEN Http500
       ELSE [status |-> 200,
             popular_movies |-> enriched_popular.val,
             trending_movies |-> enriched_trending.val,
             stats |-> [total_favorites |-> Cardinality(DOMAIN favorites),
                        total_watchlist |-> Cardinality(DOMAIN watchlist),
                        movies_watched |-> Cardinality(DOMAIN favorites),
                        avg_rating |-> AvgRating(favorites)],
             page |-> 1,
             total_pages |-> 1]

\* search_movies_enriched, lines 349-377: the search raised or the enrichment
\* raised, each answered 500
SearchResponse(page, prim, fav, wl) ==
    IF IsException(prim) THEN Http500
    ELSE LET enriched_movies ==
                 EnrichAll(prim.val.results, OrEmpty(fav), OrEmpty(wl))
         IN IF IsException(enriched_movies) THEN Http500
            ELSE [status |-> 200,
                  results |-> enriched_movies.val,
                  page |-> page,
                  total_pages |-> prim.val.total_pages,
                  total_results |-> prim.val.total_results]

\* the response of an endpoint from the gathered results
BuildResponse(req, out) ==
    CASE req.ep = "feed" ->
             FeedResponse(req.page, out["primary"], out["favorites"], out["watchlist"])
      [] req.ep = "details" ->
             DetailsResponse(req.movie_id, out["primary"], out["favorites"],
                             out["watchlist"])
      [] req.ep = "complete" ->
             CompleteResponse(out["primary"], out["trending"], out["favorites"],
                              out["watchlist"])
      [] req.ep = "search" ->
             SearchResponse(req.page, out["primary"], out["favorites"],
                            out["watchlist"])

Idle == [ep |-> "none", page |-> 1, movie_id |-> 1]

\* the function a fanned-out call invokes and the page it is given, if any
Args(fn, page) == [fn |-> fn, page |-> page]
NoArgs == Args("", None)

\* the page handed to every call of the fan-out, the secondary ones included
TaskArgs_PagedAll(req, t) ==
    Args(CASE t = "favorites" -> "get_favorites"
           [] t = "watchlist" -> "get_watchlist"
           [] OTHER -> "get_popular_movies",
         Some(req.page))

\* get_personalized_feed lines 105-107, get_enriched_movie_details lines
\* 172-177, get_complete_dashboard lines 252-255, search_movies_enriched lines
\* 338-340: the calls an endpoint creates
TaskArgs(req, t) ==
    CASE t = "favorites" -> Args("get_favorites", None)
      [] t = "watchlist" -> Args("get_watchlist", None)
      [] t = "trending" -> Args("get_trending_movies", None)
      [] t = "primary" /\ req.ep = "feed" ->
             Args("get_popular_movies", Some(req.page))
      [] t = "primary" /\ req.ep = "search" ->
             Args("search_movies", Some(req.page))
      [] t = "primary" /\ req.ep = "details" -> Args("get_movie_details", None)
      [] OTHER -> Args("get_popular_movies", Some(1))

\* mode: for a catalog call suspended in the network, what line 41 of
\* CircuitBreaker.call decided at entry ("bypass" or "tracked")
NoTask == [st |-> "none", dep |-> <<>>, out |-> Raised, args |-> NoArgs,
           mode |-> ""]
NoResp == [status |-> 0]

\* asyncio.gather(..., return_exceptions=True): the join completes when every
\* awaitable has an outcome
JoinReady_FirstException(ts, names) ==
    \/ \A t \in names : ts[t].st = "done"
    \/ \E t \in names : ts[t].st = "done" /\ IsException(ts[t].out)
\* a join that resumes only when every awaitable returned a value
JoinReady_AllReturned(ts, names) ==
    \A t \in names : ts[t].st = "done" /\ ~IsException(ts[t].out)
JoinReady(ts, names) == \A t \in names : ts[t].st = "done"

InitAgg ==
    /\ areq = Idle
    /\ tasks = [t \in TaskNames |-> NoTask]
    /\ resp = NoResp

\* the endpoint creates its coroutines and awaits gather, which schedules all
AggStart(ep, page, mid) ==
    /\ areq = Idle
    /\ areq' = [ep |-> ep,
                page |-> IF ep \in {"feed", "search"} THEN page ELSE 1,
                movie_id |-> IF ep = "details" THEN mid ELSE 1]
    /\ tasks' = [t \in TaskNames |->
                    IF t \in FanOut(ep)
                    THEN [NoTask EXCEPT !.st = "scheduled",
                                        !.args = TaskArgs(areq', t)]
                    ELSE NoTask]
    /\ UNCHANGED resp
    /\ UNCHANGED notAgg

\* a scheduled call starts. A preferences call suspends in its network I/O.
\* A catalog call runs TMDBClient._make_request: its cache lookup returns at
\* once (cache_manager.py line 40, the cache of an aggregation is off), then
\* CircuitBreaker.call, lines 41-50, admits it (it suspends in the network),
\* admits it as a probe, or rejects it (it raises at once)
TaskRun(t) ==
    /\ resp = NoResp
    /\ tasks[t].st = "scheduled"
    /\ IF t \in {"primary", "trending"}
       THEN LET adm == IF Bypassed(cbEnabled) THEN "pass"
                       ELSE Admission(state, now, last_failure_time, timeout)
                md == IF Bypassed(cbEnabled) THEN "bypass" ELSE "tracked"
            IN /\ state' = IF adm = "probe" THEN HALF_OPEN ELSE state
               /\ tasks' = [tasks EXCEPT ![t] =
                               IF adm = "reject"
                               THEN [st |-> "done", dep |-> Raised, out |-> Raised,
                                     args |-> tasks[t].args, mode |-> md]
                               ELSE [tasks[t] EXCEPT !.st = "running",
                                                     !.mode = md]]
       ELSE /\ tasks' = [tasks EXCEPT ![t].st = "running"]
            /\ UNCHANGED state
    /\ UNCHANGED <<areq, resp, failure_count, last_failure_time>>
    /\ UNCHANGED notCatalog

\* a catalog call's network request answers: CircuitBreaker.call, lines 53-76,
\* records the outcome (line 42: nothing for a call that entered with the
\* breaker disabled) before the call returns or raises into gather
CatalogDone(t, o) ==
    /\ resp = NoResp
    /\ t \in {"primary", "trending"}
    /\ tasks[t].st = "running"
    /\ tasks' = [tasks EXCEPT ![t] = [st |-> "done", dep |-> o, out |-> o,
                                      args |-> tasks[t].args,
                                      mode |-> tasks[t].mode]]
    /\ IF tasks[t].mode # "tracked"
       THEN UNCHANGED <<failure_count, last_failure_time, state>>
       ELSE IF IsException(o)
            THEN /\ failure_count' = IncFailureCount(failure_count)
                 /\ last_failure_time' = Some(now)
                 /\ state' = StateOnFailure(state, failure_count',
                                            failure_threshold)
            ELSE /\ state' = StateOnSuccess(state)
                 /\ failure_count' = CountOnSuccess(state, failure_count)
                 /\ UNCHANGED last_failure_time
    /\ UNCHANGED <<areq, resp>>
    /\ UNCHANGED notCatalog

\* a preferences call returns or raises inside its fetch helper
PrefDone(t, o) ==
    /\ resp = NoResp
    /\ t \in {"favorites", "watchlist"}
    /\ tasks[t].st = "running"
    /\ tasks' = [tasks EXCEPT ![t] = [st |-> "done", dep |-> o,
                                      out |-> FetchUserMapping(o),
                                      args |-> tasks[t].args,
                                      mode |-> tasks[t].mode]]
    /\ UNCHANGED <<areq, resp>>
    /\ UNCHANGED notAgg

\* gather returns; the endpoint merges and answers
AggRespond ==
    /\ areq # Idle
    /\ resp = NoResp
    /\ JoinReady(tasks, FanOut(areq.ep))
    /\ resp' = BuildResponse(areq, [t \in TaskNames |-> tasks[t].out])
    /\ UNCHANGED <<areq, tasks>>
    /\ UNCHANGED notAgg

NextAgg ==
    \/ \E ep \in Endpoints, page \in Pages, mid \in MovieIds : AggStart(ep, page, mid)
    \/ \E t \in TaskNames : TaskRun(t)
    \/ \E t \in TaskNames : \E o \in CatalogOutcomes(areq.ep, areq.movie_id) :
           CatalogDone(t, o)
    \/ \E o \in PrefOutcomes(FavLists) : PrefDone("favorites", o)
    \/ \E o \in PrefOutcomes(WlLists) : PrefDone("watchlist", o)
    \/ AggRespond

----------------------------------------------------------------------------
(***************************************************************************)
(* Response cache (utils/cache_manager.py)                                 *)
(***************************************************************************)

\* a JSON object (a dict with string keys) is a function from field names;
\* {} is the empty one
EmptyPayload == <<>>

\* the other Python values a caller may hand to set carry their type: a
\* tuple, a list, a dict keyed by ints (as _fetch_user_favorites builds them),
\* a set
PyTuple(elts) == [py |-> "tuple", elts |-> elts]
PyList(elts) == [py |-> "list", elts |-> elts]
PyDict(keyed) == [py |-> "dict", keyed |-> keyed]
PySet(members) == [py |-> "set", members |-> members]
TypeOf(v) == IF "py" \in DOMAIN v THEN v.py ELSE "object"

\* Python truthiness of what cache.get returned: None and {} are false
Truthy(x) == x # None /\ x[1] # EmptyPayload

\* json.dumps(value), line 62, is called without default=: a value of no JSON
\* type makes it raise TypeError
Serializable(v) == TypeOf(v) # "set"

\* json.dumps(value): the text, given as the JSON document it spells. A tuple
\* is written as an array and the int keys of a dict as strings, so the text
\* of a tuple is that of the list and the text of {550: x} that of {"550": x};
\* objects and lists are written as they are
Dumps(v) ==
    CASE TypeOf(v) = "set" -> Raised
      [] TypeOf(v) = "tuple" -> [json |-> PyList(v.elts)]
      [] TypeOf(v) = "dict" ->
             [json |-> [k \in {ToString(i) : i \in DOMAIN v.keyed} |->
                           v.keyed[CHOOSE i \in DOMAIN v.keyed :
                                       ToString(i) = k]]]
      [] OTHER -> [json |-> v]
\* json.loads(text), line 46: the value of the document, arrays as lists and
\* objects as dicts with string keys
Loads(text) == text.json

NoEntry == [present |-> FALSE, text |-> Dumps(EmptyPayload), exp |-> 0]

\* get, line 40 / set, line 54 / delete, line 69: the cache does anything at all
CacheUsable_ClientOnly(en, cl) == cl # None
CacheUsable(en, cl) == en /\ cl # None

\* what the store answers to GET key: the text while the entry has not expired
StoreGet(st, key, t) ==
    IF st[key].present /\ t < st[key].exp THEN Some(st[key].text) ELSE None

\* get: None when the read fails or nothing is there, else the parsed value
CacheGet(ok, st, key, t) ==
    IF ok /\ StoreGet(st, key, t) # None
    THEN Some(Loads(StoreGet(st, key, t)[1]))
    ELSE None

\* set with one second in place of settings.CACHE_TTL
EffectiveTTL_One(ttl) == IF ttl = None THEN 1 ELSE ttl[1]
\* set, line 58: ttl = ttl or settings.CACHE_TTL; ttl is None when the caller
\* omits it, and "or" takes the default for None and for 0 alike
EffectiveTTL(ttl) == IF ttl = None \/ ttl = Some(0) THEN CACHE_TTL ELSE ttl[1]

\* set, lines 59-63: setex(key, ttl, json.dumps(value)); a failure, of dumps
\* or of the store, is swallowed
CacheSet(ok, st, key, value, ttl, t) ==
    IF ok /\ Serializable(value) /\ EffectiveTTL(ttl) > 0
    THEN [st EXCEPT ![key] = [present |-> TRUE, text |-> Dumps(value),
                              exp |-> t + EffectiveTTL(ttl)]]
    ELSE st

\* except Exception as e: log, and return (the default) instead of raising
Swallow_Reraise(r, dflt) == r
Swallow(r, dflt) == IF IsException(r) THEN Value(dflt) ELSE r

\* get, lines 43-47: the try body at the instant the store answers (ok: the
\* store answered)
TryGet(ok, st, key, t) == IF ok THEN Value(CacheGet(TRUE, st, key, t)) ELSE Raised

\* set, lines 57-63: the try body at the instant the store executes setex,
\* yielding the store it leaves
TrySet(ok, st, key, value, ttl, t) ==
    IF ok /\ Serializable(value) /\ EffectiveTTL(ttl) > 0
    THEN Value(CacheSet(TRUE, st, key, value, ttl, t))
    ELSE Raised

\* delete, lines 72-73: the try body at the instant the store executes it
TryDelete_Keep(ok, st, key) == IF ok THEN Value(st) ELSE Raised
TryDelete(ok, st, key) ==
    IF ok THEN Value([st EXCEPT ![key] = NoEntry]) ELSE Raised

----------------------------------------------------------------------------
(***************************************************************************)
(* TMDB client (services/tmdb_client.py)                                   *)
(***************************************************************************)

\* calls of the typed wrappers
GetPopularMovies(page, region) ==
    [fn |-> "get_popular_movies", page |-> page, region |-> region,
     time_window |-> "", movie_id |-> 0, append_to_response |-> <<>>,
     query |-> ""]
GetTrendingMovies(tw) ==
    [fn |-> "get_trending_movies", page |-> 0, region |-> None,
     time_window |-> tw, movie_id |-> 0, append_to_response |-> <<>>,
     query |-> ""]
GetMovieDetails(mid, append) ==
    [fn |-> "get_movie_details", page |-> 0, region |-> None,
     time_window |-> "", movie_id |-> mid, append_to_response |-> append,
     query |-> ""]
SearchMovies(q, page) ==
    [fn |-> "search_movies", page |-> page, region |-> None,
     time_window |-> "", movie_id |-> 0, append_to_response |-> <<>>,
     query |-> q]
NoCall == GetTrendingMovies("")
\* _make_request called directly for /movie/{id} with that movie's cache key
\* and a method of the caller's choice
MakeRequest(method, mid) ==
    [fn |-> "_make_request", page |-> 0, region |-> None, time_window |-> "",
     movie_id |-> mid, append_to_response |-> <<>>, query |-> "",
     method |-> method]

\* get_movie_details: the sub-resources requested when none are given, and
\* the ones get_enriched_movie_details asks for
DefaultAppend == "credits,reviews,similar,videos,images"
RouterAppend == <<"credits", "reviews", "similar", "recommendations">>

\* ",".join(xs)
RECURSIVE Join(_)
Join(xs) ==
    IF xs = <<>> THEN ""
    ELSE IF Len(xs) = 1 THEN xs[1]
    ELSE xs[1] \o "," \o Join(Tail(xs))

\* f"{region}": None prints as "None"
Format(opt) == IF opt = None THEN "None" ELSE opt[1]

\* if region: (None and "" are false)
RegionGiven(region) == region # None /\ region[1] # ""

\* the arguments each wrapper passes to _make_request
Request(call) ==
    CASE call.fn = "get_popular_movies" ->
             [method |-> "GET", endpoint |-> "/movie/popular",
              params |-> << <<"page", ToString(call.page)>> >>
                         \o (IF RegionGiven(call.region)
                             THEN << <<"region", call.region[1]>> >> ELSE <<>>),
              cache_key |-> Some("popular:movies:page" \o ToString(call.page)
                                 \o ":region" \o Format(call.region))]
      [] call.fn = "get_trending_movies" ->
             [method |-> "GET",
              endpoint |-> "/trending/movie/" \o call.time_window,
              params |-> <<>>,
              cache_key |-> Some("trending:movies:" \o call.time_window)]
      [] call.fn = "get_movie_details" ->
             [method |-> "GET",
              endpoint |-> "/movie/" \o ToString(call.movie_id),
              params |-> << <<"append_to_response",
                              IF call.append_to_response # <<>>
                              THEN Join(call.append_to_response)
                              ELSE DefaultAppend>> >>,
              cache_key |-> Some("movie:" \o ToString(call.movie_id) \o ":full")]
      [] call.fn = "search_movies" ->
             [method |-> "GET", endpoint |-> "/search/movie",
              params |-> << <<"query", call.query>>,
                            <<"page", ToString(call.page)>>,
                            <<"include_adult", "False">> >>,
              cache_key |-> None]
      [] call.fn = "_make_request" ->
             [method |-> call.method,
              endpoint |-> "/movie/" \o ToString(call.movie_id),
              params |-> <<>>,
              cache_key |-> Some("movie:" \o ToString(call.movie_id) \o ":full")]

\* the test of lines 68 and 87 without its method part
Cacheable_AnyMethod(rq) == rq.cache_key # None /\ rq.cache_key[1] # ""

\* if method == "GET" and cache_key:
Cacheable(rq) ==
    rq.method = "GET" /\ rq.cache_key # None /\ rq.cache_key[1] # ""

\* the calls exercised, and the keys they derive
ClientCalls ==
    {GetMovieDetails(1, <<>>), GetMovieDetails(1, RouterAppend),
     SearchMovies("q", 1)}
Keys == {Request(c).cache_key[1] : c \in {d \in ClientCalls : Cacheable(Request(d))}}
KeyOf(call) == Request(call).cache_key[1]

\* exceptions by class: the class raised and, for a response with a
\* non-success status, the status code of the response it carries
Error(type, status) == [type |-> type, status |-> status]
\* CircuitBreaker.call, line 50: raise Exception("Circuit ... is OPEN - failing fast")
RejectionError == Error("Exception", 0)
\* _request, line 81: response.raise_for_status()
HTTPStatusError(status) == Error("HTTPStatusError", status)
\* _request, line 80: client.request() cannot connect, or exceeds timeout=30.0
ConnectError == Error("ConnectError", 0)
ReadTimeout == Error("ReadTimeout", 0)
DependencyErrors == {HTTPStatusError(404), ConnectError, ReadTimeout}

\* the classes an exception is an instance of: the builtin Exception is the
\* root; httpx derives HTTPStatusError and the transport errors from HTTPError
Bases(type) ==
    CASE type = "Exception" -> {"Exception"}
      [] type = "HTTPStatusError" -> {"HTTPStatusError", "HTTPError", "Exception"}
      [] type = "ConnectError" ->
             {"ConnectError", "NetworkError", "TransportError", "RequestError",
              "HTTPError", "Exception"}
      [] type = "ReadTimeout" ->
             {"ReadTimeout", "TimeoutException", "TransportError", "RequestError",
              "HTTPError", "Exception"}

\* except cls: handles e
Catches(cls, e) == cls \in Bases(e.type)

\* an operation that raises e
Failure(e) == [ok |-> FALSE, val |-> e]

\* call, line 76, replaced by raising the breaker's own exception
Reraise_Rejection(e) == RejectionError

\* call, line 76: a bare raise re-raises the exception being handled
Reraise(e) == e

\* the dependency answers a request with an error, with an empty object, or
\* with the resource the request names
Body(rq) == [endpoint |-> rq.endpoint, params |-> rq.params]
NetOutcomes(rq) ==
    {Failure(e) : e \in DependencyErrors}
        \cup {Value(EmptyPayload), Value(Body(rq))}

Reqs == 1..NReqs

\* pc: where _make_request is suspended: "get" / "set" in cache.get /
\* cache.set before the store has executed the command, "got" / "stored" once
\* it has (reply: the outcome of the awaited store call), "net" in the network.
\* mode: what line 41 of CircuitBreaker.call decided when the call entered it
\* ("bypass" or "tracked"); "" while the call has not reached the breaker
IdleReq ==
    [pc |-> "idle", call |-> NoCall, result |-> EmptyPayload, mode |-> "",
     reply |-> Raised]
InFlight(call, at, result, md) ==
    [pc |-> at, call |-> call, result |-> result, mode |-> md, reply |-> Raised]

\* the call that completed last, when it returned a network result it had
\* stored in the cache; NoCall when the last completed call did anything else
PrevStored(kind, call, outcome, ok) ==
    IF kind = "set" /\ outcome = "return" /\ ok THEN call
    ELSE IF outcome \in {"return", "raise", "reject"} THEN NoCall
    ELSE cev.prev

\* no operation has answered in this step
NoOutcome == Raised

ClientEvent(kind, call, outcome, value, ok) ==
    [kind |-> kind, call |-> call, outcome |-> outcome, value |-> value,
     ok |-> ok, prev |-> PrevStored(kind, call, outcome, ok), op |-> NoOutcome]
\* the operation awaited by the breaker answered o, and call() returned or
\* raised value
NetEvent(call, outcome, value, o) ==
    [ClientEvent("net", call, outcome, value, FALSE) EXCEPT !.op = o]
NoClientEvent ==
    [kind |-> "init", call |-> NoCall, outcome |-> "none",
     value |-> EmptyPayload, ok |-> FALSE, prev |-> NoCall, op |-> NoOutcome]

\* the cache disabled by settings.CACHE_ENABLED, or enabled and connected
\* (connect() has returned, its ping answered)
InitClient ==
    /\ cache_enabled \in BOOLEAN
    /\ redis_client = IF cache_enabled THEN Some("redis") ELSE None
    /\ store = [k \in Keys |-> NoEntry]
    /\ creq = [r \in Reqs |-> IdleReq]
    /\ cev = NoClientEvent

\* connect, lines 34-36, without self.enabled = False
ConnectEnabled_Keep(o) == TRUE

\* connect, lines 26-36: the cache stays enabled only when from_url and ping
\* both worked; the except clause logs and sets self.enabled = False
ConnectEnabled(o) == o = "ok"

\* a direct operation returned: what it was, whether the store was contacted
\* and answered, and what the caller got
CacheOp(op, key, ok, r, contacted) ==
    [op |-> op, key |-> key, ok |-> ok,
     ret |-> IF IsException(r) \/ op # "get" THEN None ELSE r.val,
     raised |-> IsException(r), contacted |-> contacted]
NoCacheOp ==
    [op |-> "init", key |-> "", ok |-> FALSE, ret |-> None,
     raised |-> FALSE, contacted |-> FALSE]

\* what connect did: ok when from_url and ping worked, contacted when the
\* ping was sent, raised when an exception left connect (the except clause
\* catches them all); connect takes no key
ConnectOp(o) ==
    [op |-> "connect", key |-> "", ok |-> (o = "ok"), ret |-> None,
     raised |-> IsException(Swallow(IF o = "ok" THEN Value(None) ELSE Raised,
                                    None)),
     contacted |-> (o # "bad_url")]

\* connect, lines 20-32, up to its suspension: nothing when disabled (line
\* 22); from_url may raise, which leaves the client as it was and disables the
\* cache; else the new client is assigned (line 27) and connect suspends in
\* the ping (line 32) with the cache enabled. One connect runs at a time.
CacheConnect(o) ==
    /\ cache_enabled
    /\ cconn = "idle"
    /\ IF o = "bad_url"
       THEN /\ cache_enabled' = (cache_enabled /\ ConnectEnabled(o))
            /\ cop' = ConnectOp(o)
            /\ UNCHANGED <<redis_client, cconn>>
       ELSE /\ redis_client' = Some("redis")
            /\ cconn' = "ping"
            /\ cop' = NoCacheOp
            /\ UNCHANGED cache_enabled
    /\ UNCHANGED <<state, failure_count, last_failure_time, store, creq, cev>>
    /\ UNCHANGED <<cbEnabled, failure_threshold, timeout, now, pc, mode, ev,
                   streak, burst, burstBase, probeOut, duringProbe, avars,
                   kcalls, kreqs, written, cio, uvars>>

\* connect, lines 32-36: the ping answered ("ok") or raised ("ping_fails");
\* the except clause sets self.enabled = False and keeps the client
CacheConnectResume(o) ==
    /\ cconn = "ping"
    /\ cconn' = "idle"
    /\ cache_enabled' = (cache_enabled /\ ConnectEnabled(o))
    /\ cop' = ConnectOp(o)
    /\ UNCHANGED <<state, failure_count, last_failure_time, redis_client, store,
                   creq, cev>>
    /\ UNCHANGED <<cbEnabled, failure_threshold, timeout, now, pc, mode, ev,
                   streak, burst, burstBase, probeOut, duringProbe, avars,
                   kcalls, kreqs, written, cio, uvars>>

\* _make_request, line 84: circuit_breaker.call(_request) up to the suspension
\* in client.request, or to the rejection
Invoke(r, call, kind, ok) ==
    LET adm == IF Bypassed(cbEnabled) THEN "pass"
               ELSE Admission(state, now, last_failure_time, timeout)
        md == IF Bypassed(cbEnabled) THEN "bypass" ELSE "tracked"
    IN /\ state' = IF adm = "probe" THEN HALF_OPEN ELSE state
       /\ creq' = [creq EXCEPT ![r] = IF adm = "reject" THEN IdleReq
                                      ELSE InFlight(call, "net", EmptyPayload, md)]
       /\ cev' = IF adm = "reject"
                 THEN ClientEvent(kind, call, "reject", RejectionError, ok)
                 ELSE ClientEvent(kind, call, "invoke", EmptyPayload, ok)
       /\ UNCHANGED <<failure_count, last_failure_time, cache_enabled,
                      redis_client, store>>

\* a wrapper is called: _make_request up to its first suspension
ReqStart(r, call) ==
    /\ creq[r].pc = "idle"
    /\ IF Cacheable(Request(call)) /\ CacheUsable(cache_enabled, redis_client)
       THEN /\ creq' = [creq EXCEPT ![r] = InFlight(call, "get", EmptyPayload, "")]
            /\ cev' = ClientEvent("start", call, "suspend", EmptyPayload, FALSE)
            /\ UNCHANGED <<state, failure_count, last_failure_time,
                           cache_enabled, redis_client, store>>
       ELSE Invoke(r, call, "start", FALSE)
    /\ UNCHANGED notClient

\* the store executes the command of a request suspended in cache.get
\* (cache_manager.py line 44) or in cache.set (lines 59-63, ttl omitted) at
\* some instant before the request is resumed, or fails (ok = FALSE)
StoreServeReq(r, ok) ==
    /\ creq[r].pc \in {"get", "set"}
    /\ LET key == KeyOf(creq[r].call)
           res == TrySet(ok, store, key, creq[r].result, None, now)
       IN IF creq[r].pc = "get"
          THEN /\ creq' = [creq EXCEPT ![r].pc = "got",
                                       ![r].reply = TryGet(ok, store, key, now)]
               /\ UNCHANGED store
          ELSE /\ creq' = [creq EXCEPT ![r].pc = "stored",
                                       ![r].reply = IF IsException(res) THEN Raised
                                                    ELSE Value(None)]
               /\ store' = IF IsException(res) THEN store ELSE res.val
    /\ UNCHANGED <<state, failure_count, last_failure_time, cache_enabled,
                   redis_client, cev>>
    /\ UNCHANGED notClient

\* _make_request, lines 69-84: cache.get returns (cache_manager.py lines
\* 45-50: the parsed value, or None for a miss and for a failed read)
CacheGetReturn(r) ==
    /\ creq[r].pc = "got"
    /\ LET call == creq[r].call
           ok == ~IsException(creq[r].reply)
           cached == Swallow(creq[r].reply, None).val
       IN IF Truthy(cached)
          THEN /\ creq' = [creq EXCEPT ![r] = IdleReq]
               /\ cev' = ClientEvent("get", call, "return", cached[1], ok)
               /\ UNCHANGED <<state, failure_count, last_failure_time,
                              cache_enabled, redis_client, store>>
          ELSE Invoke(r, call, "get", ok)
    /\ UNCHANGED notClient

\* _make_request, lines 84-90, and CircuitBreaker.call, lines 53-76 (line 42
\* for a call that entered with the breaker disabled): the network call
\* answered
NetReturn(r, o) ==
    /\ creq[r].pc = "net"
    /\ LET call == creq[r].call IN
       IF IsException(o)
       THEN /\ IF creq[r].mode = "tracked"
               THEN /\ failure_count' = IncFailureCount(failure_count)
                    /\ last_failure_time' = Some(now)
                    /\ state' = StateOnFailure(state, failure_count',
                                               failure_threshold)
               ELSE UNCHANGED <<failure_count, last_failure_time, state>>
            /\ creq' = [creq EXCEPT ![r] = IdleReq]
            /\ cev' = NetEvent(call, "raise", Reraise(o.val), o)
       ELSE /\ IF creq[r].mode = "tracked"
               THEN /\ state' = StateOnSuccess(state)
                    /\ failure_count' = CountOnSuccess(state, failure_count)
               ELSE UNCHANGED <<failure_count, state>>
            /\ UNCHANGED last_failure_time
            /\ IF Cacheable(Request(call))
                  /\ CacheUsable(cache_enabled, redis_client)
               THEN /\ creq' = [creq EXCEPT ![r] =
                                    InFlight(call, "set", o.val, creq[r].mode)]
                    /\ cev' = NetEvent(call, "suspend", o.val, o)
               ELSE /\ creq' = [creq EXCEPT ![r] = IdleReq]
                    /\ cev' = NetEvent(call, "return", o.val, o)
    /\ UNCHANGED <<cache_enabled, redis_client, store>>
    /\ UNCHANGED notClient

\* _make_request, lines 88-90: cache.set(cache_key, result) returns (a failed
\* write was logged, cache_manager.py lines 64-65), the result is returned
CacheSetDone(r) ==
    /\ creq[r].pc = "stored"
    /\ creq' = [creq EXCEPT ![r] = IdleReq]
    /\ cev' = ClientEvent("set", creq[r].call, "return", creq[r].result,
                          ~IsException(creq[r].reply))
    /\ UNCHANGED <<state, failure_count, last_failure_time, cache_enabled,
                   redis_client, store>>
    /\ UNCHANGED notClient

\* time.time() while requests run (no timeout of the breaker and no expiry
\* of a stored response falls within the horizon)
ClientTick == now < MaxClientTime /\ Tick

NextClient ==
    \/ \E r \in Reqs, call \in ClientCalls : ReqStart(r, call)
    \/ \E r \in Reqs, ok \in BOOLEAN : StoreServeReq(r, ok)
    \/ \E r \in Reqs : CacheGetReturn(r)
    \/ \E r \in Reqs : \E o \in NetOutcomes(Request(creq[r].call)) : NetReturn(r, o)
    \/ \E r \in Reqs : CacheSetDone(r)
    \/ ClientTick

\* _make_request reached through a wrapper with a cache key, through a
\* wrapper without one, and directly with a method other than GET
DirectCalls ==
    {GetMovieDetails(1, <<>>), SearchMovies("q", 1), MakeRequest("POST", 1)}

NextDirect ==
    \/ \E r \in Reqs, call \in DirectCalls : ReqStart(r, call)
    \/ \E r \in Reqs, ok \in BOOLEAN : StoreServeReq(r, ok)
    \/ \E r \in Reqs : CacheGetReturn(r)
    \/ \E r \in Reqs : \E o \in NetOutcomes(Request(creq[r].call)) : NetReturn(r, o)
    \/ \E r \in Reqs : CacheSetDone(r)
    \/ ClientTick

----------------------------------------------------------------------------
(***************************************************************************)
(* Cache key derivation of the typed wrappers (services/tmdb_client.py)    *)
(***************************************************************************)

\* arguments the wrappers are called with
Regions == {None, Some(""), Some("US")}
TimeWindows == {"day", "week"}
Appends == {<<>>, RouterAppend,
            <<"credits", "reviews", "similar", "videos", "images">>}
KeyCalls ==
    {GetPopularMovies(p, r) : p \in Pages, r \in Regions}
        \cup {GetTrendingMovies(w) : w \in TimeWindows}
        \cup {GetMovieDetails(m, a) : m \in MovieIds, a \in Appends}
        \cup {SearchMovies("q", p) : p \in Pages}

\* what goes on the wire: client.request(method, url, params=params)
Outbound(rq) == [method |-> rq.method, endpoint |-> rq.endpoint,
                 params |-> rq.params]

NoRequests == <<>>

InitKeys ==
    /\ kcalls \in KeyCalls \X KeyCalls
    /\ kreqs = NoRequests

InitKeysIdle ==
    /\ kcalls = <<NoCall, NoCall>>
    /\ kreqs = NoRequests

\* each wrapper builds params and cache_key and hands them to _make_request
DeriveKeys ==
    /\ kreqs = NoRequests
    /\ kcalls # <<NoCall, NoCall>>
    /\ kreqs' = <<Request(kcalls[1]), Request(kcalls[2])>>
    /\ UNCHANGED <<kcalls, cop, written, cio, cconn>>
    /\ UNCHANGED <<bvars, avars, cvars, uvars>>

NextKeys == DeriveKeys

----------------------------------------------------------------------------
(***************************************************************************)
(* The cache called directly: get, set, delete (utils/cache_manager.py)    *)
(***************************************************************************)

\* keys of the direct calls, and the value and ttl arguments of the sets
\* (None: ttl omitted): JSON objects under the keys of the client and, under
\* a key of the caller's own, the empty object, the tuple (1, 2), the mapping
\* {550: {"rating": 5}} that _fetch_user_favorites returns and the set {550}
CacheKeys == Keys \cup {Request(GetTrendingMovies("day")).cache_key[1]}
FavoritesById == PyDict([i \in {550} |-> [rating |-> 5]])
JsonArgs ==
    {<<EmptyPayload, None>>, <<Body(Request(GetMovieDetails(1, <<>>))), Some(0)>>,
     <<Body(Request(GetMovieDetails(1, <<>>))), Some(1)>>}
PyArgs ==
    {<<EmptyPayload, None>>, <<PyTuple(<<1, 2>>), Some(1)>>,
     <<FavoritesById, Some(0)>>, <<PySet({550}), None>>}
SetArgs(key) == IF key \in Keys THEN JsonArgs ELSE PyArgs

\* what the store may hold when the process starts: nothing, or an entry an
\* earlier run left
LeftOver ==
    [present |-> TRUE, text |-> Dumps(Body(Request(GetMovieDetails(1, <<>>)))),
     exp |-> 2]
InitialStores ==
    {[k \in CacheKeys |-> NoEntry],
     [k \in CacheKeys |-> IF k = KeyOf(GetMovieDetails(1, <<>>)) THEN LeftOver
                          ELSE NoEntry]}

NoWrite == [present |-> FALSE, value |-> EmptyPayload, exp |-> 0]
\* the entry that was there has been deleted and not set since
Deleted == [present |-> FALSE, value |-> EmptyPayload, exp |-> -1]
WrittenOf(st) ==
    [k \in DOMAIN st |-> IF st[k].present
                         THEN [present |-> TRUE, value |-> Loads(st[k].text),
                               exp |-> st[k].exp]
                         ELSE NoWrite]

\* coroutines that call the cache directly
CacheCallers == {1, 2}

\* a direct call suspended in its await: "sent" until the store executes the
\* command, "served" once it has and the reply (the outcome of the awaited
\* store call) waits for the coroutine to be resumed
NoCmd ==
    [pc |-> "idle", op |-> "", key |-> "", value |-> EmptyPayload, ttl |-> None,
     reply |-> Raised]
Cmd(op, key, value, ttl) ==
    [pc |-> "sent", op |-> op, key |-> key, value |-> value, ttl |-> ttl,
     reply |-> Raised]
Served(cmd, r) ==
    [pc |-> "served", op |-> cmd.op, key |-> cmd.key, value |-> EmptyPayload,
     ttl |-> None, reply |-> r]

InitCacheIdle ==
    /\ cop = NoCacheOp
    /\ written = <<>>
    /\ cio = [c \in CacheCallers |-> NoCmd]
    /\ cconn = "idle"

\* the cache as constructed (lines 16-18), enabled or disabled by
\* settings.CACHE_ENABLED, over a store that may hold an earlier run's entry
InitConnect ==
    /\ cache_enabled \in BOOLEAN
    /\ redis_client = None
    /\ store \in InitialStores
    /\ written = WrittenOf(store)
    /\ creq = [r \in Reqs |-> IdleReq]
    /\ cev = NoClientEvent
    /\ cop = NoCacheOp
    /\ cio = [c \in CacheCallers |-> NoCmd]
    /\ cconn = "idle"

\* the cache enabled and connected: connect() has returned, its ping answered
InitCache ==
    /\ cache_enabled = TRUE
    /\ redis_client = Some("redis")
    /\ store \in InitialStores
    /\ written = WrittenOf(store)
    /\ creq = [r \in Reqs |-> IdleReq]
    /\ cev = NoClientEvent
    /\ cop = NoCacheOp
    /\ cio = [c \in CacheCallers |-> NoCmd]
    /\ cconn = "idle"

\* get / set / delete up to the await: the guard (lines 40, 54, 69) returns
\* at once, and so does a set whose json.dumps(value) raises (line 62, caught
\* at line 64 before anything is sent); else the command goes to the store
\* and the coroutine suspends
CacheCall(c, op, key, value, ttl) ==
    /\ cio[c].pc = "idle"
    /\ IF /\ CacheUsable(cache_enabled, redis_client)
          /\ op = "set" => Serializable(value)
       THEN /\ cio' = [cio EXCEPT ![c] = Cmd(op, key, value, ttl)]
            /\ cop' = NoCacheOp
       ELSE /\ cop' = CacheOp(op, key, FALSE, Value(None), FALSE)
            /\ UNCHANGED cio
    /\ UNCHANGED <<cache_enabled, redis_client, store, written, creq, cev,
                   kcalls, kreqs, cconn>>
    /\ UNCHANGED <<bvars, avars, uvars>>

\* await cache.get(key), lines 38-44
CacheOpGet(c, key) == CacheCall(c, "get", key, EmptyPayload, None)

\* await cache.set(key, value, ttl), lines 52-63
CacheOpSet(c, key, value, ttl) == CacheCall(c, "set", key, value, ttl)

\* await cache.delete(key), lines 67-73
CacheOpDelete(c, key) == CacheCall(c, "delete", key, EmptyPayload, None)

\* the store executes the command of a suspended call (redis_client.get, line
\* 44; setex, lines 59-63; delete, line 73) at some instant before the call
\* is resumed, or fails (ok = FALSE); the cache flags are not looked at again
StoreServe(c, ok) ==
    /\ cio[c].pc = "sent"
    /\ LET cmd == cio[c]
           r == CASE cmd.op = "get" -> TryGet(ok, store, cmd.key, now)
                  [] cmd.op = "set" ->
                         TrySet(ok, store, cmd.key, cmd.value, cmd.ttl, now)
                  [] OTHER -> TryDelete(ok, store, cmd.key)
       IN /\ store' = IF cmd.op = "get" \/ IsException(r) THEN store ELSE r.val
          /\ written' =
                 CASE cmd.op = "set" /\ ok ->
                          [written EXCEPT ![cmd.key] =
                              [present |-> TRUE, value |-> cmd.value,
                               exp |-> now + EffectiveTTL(cmd.ttl)]]
                   [] cmd.op = "delete" /\ ok /\ written[cmd.key].present ->
                          [written EXCEPT ![cmd.key] = Deleted]
                   [] OTHER -> written
          /\ cio' = [cio EXCEPT ![c] =
                        Served(cmd, IF cmd.op = "get" \/ IsException(r) THEN r
                                    ELSE Value(None))]
    /\ cop' = NoCacheOp
    /\ UNCHANGED <<cache_enabled, redis_client, creq, cev, kcalls, kreqs, cconn>>
    /\ UNCHANGED <<bvars, avars, uvars>>

\* the suspended call is resumed with the store's reply: get, lines 45-50,
\* set, lines 64-65, delete, lines 74-75 (an exception is logged and the
\* default returned)
CacheOpResume(c) ==
    /\ cio[c].pc = "served"
    /\ cop' = CacheOp(cio[c].op, cio[c].key, ~IsException(cio[c].reply),
                      Swallow(cio[c].reply, None), TRUE)
    /\ cio' = [cio EXCEPT ![c] = NoCmd]
    /\ UNCHANGED <<cache_enabled, redis_client, store, written, creq, cev,
                   kcalls, kreqs, cconn>>
    /\ UNCHANGED <<bvars, avars, uvars>>

\* time.time() while the cache is called directly
CacheTick == now < MaxCacheTime /\ Tick

\* two coroutines calling a connected cache
NextCache ==
    \/ \E c \in CacheCallers, k \in CacheKeys : CacheOpGet(c, k)
    \/ \E c \in CacheCallers, k \in CacheKeys :
           \E a \in SetArgs(k) : CacheOpSet(c, k, a[1], a[2])
    \/ \E c \in CacheCallers, k \in CacheKeys : CacheOpDelete(c, k)
    \/ \E c \in CacheCallers, ok \in BOOLEAN : StoreServe(c, ok)
    \/ \E c \in CacheCallers : CacheOpResume(c)
    \/ CacheTick

\* connect() called, also again, while one coroutine calls the cache
NextConnect ==
    \/ \E o \in {"ok", "bad_url"} : CacheConnect(o)
    \/ \E o \in {"ok", "ping_fails"} : CacheConnectResume(o)
    \/ \E k \in CacheKeys : CacheOpGet(1, k)
    \/ \E k \in CacheKeys : \E a \in SetArgs(k) : CacheOpSet(1, k, a[1], a[2])
    \/ \E k \in CacheKeys : CacheOpDelete(1, k)
    \/ \E ok \in BOOLEAN : StoreServe(1, ok)
    \/ CacheOpResume(1)
    \/ CacheTick

----------------------------------------------------------------------------
(***************************************************************************)
(* Mock user service (mock-user-service/main.py)                           *)
(***************************************************************************)

\* an entry of a store or of a payload: every field is None or Some(value)
SAMPLE_FAVORITES ==
    << [movie_id |-> Some(550), title |-> Some("Fight Club"), rating |-> Some(5),
        added_date |-> Some("2024-01-15")],
       [movie_id |-> Some(155), title |-> Some("The Dark Knight"),
        rating |-> Some(5), added_date |-> Some("2024-01-10")],
       [movie_id |-> Some(13), title |-> Some("Forrest Gump"), rating |-> Some(4),
        added_date |-> Some("2024-01-05")] >>

SAMPLE_WATCHLIST ==
    << [movie_id |-> Some(680), title |-> Some("Pulp Fiction"),
        added_date |-> Some("2024-02-01")],
       [movie_id |-> Some(27205), title |-> Some("Inception"),
        added_date |-> Some("2024-01-28")] >>

\* request bodies of the POST endpoints (a missing key: None) and ids in paths
Payload(movie_id, title, rating, poster_path, release_date) ==
    [movie_id |-> movie_id, title |-> title, rating |-> rating,
     poster_path |-> poster_path, release_date |-> release_date]
\* the optional keys a body carries: none, the bodies the docstrings of
\* add_favorite and add_to_watchlist document, and a title with a release_date
Payloads ==
    UNION {{Payload(m, None, None, None, None),
            Payload(m, Some("Se7en"), Some(3), Some("/p.jpg"), None),
            Payload(m, Some("Se7en"), None, Some("/p.jpg"), Some("1995-09-22")),
            Payload(m, Some("Se7en"), None, None, Some("1995-09-22"))} :
           m \in {None, Some(0), Some(550), Some(999)}}
PathIds == {550, 680, 999}

\* a dict keyed by movie_id, as the sequence of its values in insertion order
\* movie_id in store
Has(d, k) == \E i \in DOMAIN d : d[i].movie_id = Some(k)
\* store[movie_id]
Item(d, k) == d[CHOOSE i \in DOMAIN d : d[i].movie_id = Some(k)]
\* store[movie_id] = v: a key already there keeps its place
SetItem(d, k, v) ==
    IF Has(d, k)
    THEN [i \in DOMAIN d |-> IF d[i].movie_id = Some(k) THEN v ELSE d[i]]
    ELSE Append(d, v)
\* store.pop(movie_id), the store that is left
Pop(d, k) ==
    LET Other(e) == e.movie_id # Some(k)
    IN SelectSeq(d, Other)
\* for fav in SAMPLE_FAVORITES: store[fav["movie_id"]] = fav
RECURSIVE Load(_, _)
Load(d, samples) ==
    IF samples = <<>> THEN d
    ELSE Load(SetItem(d, Head(samples).movie_id[1], Head(samples)), Tail(samples))

\* reset_data, lines 257-264, without the clear() calls
ResetStore_NoClear(d, samples) == Load(d, samples)
\* reset_data, lines 257-264: store.clear(), then the samples are loaded
ResetStore(d, samples) == Load(<<>>, samples)

\* not movie_id
Falsy(x) == x = None \/ x = Some(0)

\* add_favorite lines 91-95, add_to_watchlist lines 189-193: the status the
\* checks before the insertion decide
AddCheck_Overwrite(d, movie_id) == IF Falsy(movie_id) THEN 400 ELSE 200
AddCheck(d, movie_id) ==
    IF Falsy(movie_id) THEN 400
    ELSE IF Has(d, movie_id[1]) THEN 409
    ELSE 200

\* payload.get("title", f"Movie {movie_id}")
TitleOf(payload) ==
    IF payload.title = None
    THEN Some("Movie " \o ToString(payload.movie_id[1]))
    ELSE payload.title

\* datetime.now().isoformat()
IsoFormat(t) == "T" \o ToString(t)

\* add_favorite, lines 97-103
Favorite(payload, t) ==
    [movie_id |-> payload.movie_id, title |-> TitleOf(payload),
     rating |-> payload.rating, poster_path |-> payload.poster_path,
     added_date |-> Some(IsoFormat(t))]

\* add_to_watchlist, lines 195-201
WatchlistItem(payload, t) ==
    [movie_id |-> payload.movie_id, title |-> TitleOf(payload),
     poster_path |-> payload.poster_path,
     release_date |-> payload.release_date,
     added_date |-> Some(IsoFormat(t))]

\* a response: the endpoint, the movie_id of the request, status and body
Response(op, movie_id, status, body) ==
    [op |-> op, movie_id |-> movie_id, status |-> status, body |-> body]
\* raise HTTPException(status_code=..., detail=...)
Detail(text) == [detail |-> text]
NoUserResponse == Response("none", None, 0, <<>>)

\* module load, lines 22-42: both stores hold the sample data
InitUsers ==
    /\ favorites_store = Load(<<>>, SAMPLE_FAVORITES)
    /\ watchlist_store = Load(<<>>, SAMPLE_WATCHLIST)
    /\ ures = NoUserResponse

\* GET /favorites
get_favorites ==
    /\ ures' = Response("get_favorites", None, 200,
                        [items |-> favorites_store,
                         total |-> Len(favorites_store)])
    /\ UNCHANGED <<favorites_store, watchlist_store>>
    /\ UNCHANGED <<bvars, avars, cvars, pvars>>

\* POST /favorites
add_favorite(payload) ==
    LET status == AddCheck(favorites_store, payload.movie_id)
        favorite == Favorite(payload, now)
    IN /\ favorites_store' =
              IF status = 200
              THEN SetItem(favorites_store, payload.movie_id[1], favorite)
              ELSE favorites_store
       /\ ures' = Response("add_favorite", payload.movie_id, status,
                           CASE status = 400 -> Detail("movie_id is required")
                             [] status = 409 -> Detail("Movie already in favorites")
                             [] OTHER -> favorite)
       /\ UNCHANGED watchlist_store
       /\ UNCHANGED <<bvars, avars, cvars, pvars>>

\* DELETE /favorites/{movie_id}
delete_favorite(movie_id) ==
    /\ IF ~Has(favorites_store, movie_id)
       THEN /\ ures' = Response("delete_favorite", Some(movie_id), 404,
                                Detail("Movie not found in favorites"))
            /\ UNCHANGED favorites_store
       ELSE /\ favorites_store' = Pop(favorites_store, movie_id)
            /\ ures' = Response("delete_favorite", Some(movie_id), 200,
                                Item(favorites_store, movie_id))
    /\ UNCHANGED watchlist_store
    /\ UNCHANGED <<bvars, avars, cvars, pvars>>

\* GET /favorites/{movie_id}
get_favorite(movie_id) ==
    /\ ures' = IF ~Has(favorites_store, movie_id)
               THEN Response("get_favorite", Some(movie_id), 404,
                             Detail("Movie not found in favorites"))
               ELSE Response("get_favorite", Some(movie_id), 200,
                             Item(favorites_store, movie_id))
    /\ UNCHANGED <<favorites_store, watchlist_store>>
    /\ UNCHANGED <<bvars, avars, cvars, pvars>>

\* GET /watchlist
get_watchlist ==
    /\ ures' = Response("get_watchlist", None, 200,
                        [items |-> watchlist_store,
                         total |-> Len(watchlist_store)])
    /\ UNCHANGED <<favorites_store, watchlist_store>>
    /\ UNCHANGED <<bvars, avars, cvars, pvars>>

\* POST /watchlist
add_to_watchlist(payload) ==
    LET status == AddCheck(watchlist_store, payload.movie_id)
        watchlist_item == WatchlistItem(payload, now)
    IN /\ watchlist_store' =
              IF status = 200
              THEN SetItem(watchlist_store, payload.movie_id[1], watchlist_item)
              ELSE watchlist_store
       /\ ures' = Response("add_to_watchlist", payload.movie_id, status,
                           CASE status = 400 -> Detail("movie_id is required")
                             [] status = 409 -> Detail("Movie already in watchlist")
                             [] OTHER -> watchlist_item)
       /\ UNCHANGED favorites_store
       /\ UNCHANGED <<bvars, avars, cvars, pvars>>

\* DELETE /watchlist/{movie_id}
delete_from_watchlist(movie_id) ==
    /\ IF ~Has(watchlist_store, movie_id)
       THEN /\ ures' = Response("delete_from_watchlist", Some(movie_id), 404,
                                Detail("Movie not found in watchlist"))
            /\ UNCHANGED watchlist_store
       ELSE /\ watchlist_store' = Pop(watchlist_store, movie_id)
            /\ ures' = Response("delete_from_watchlist", Some(movie_id), 200,
                                Item(watchlist_store, movie_id))
    /\ UNCHANGED favorites_store
    /\ UNCHANGED <<bvars, avars, cvars, pvars>>

\* GET /watchlist/{movie_id}
get_watchlist_item(movie_id) ==
    /\ ures' = IF ~Has(watchlist_store, movie_id)
               THEN Response("get_watchlist_item", Some(movie_id), 404,
                             Detail("Movie not found in watchlist"))
               ELSE Response("get_watchlist_item", Some(movie_id), 200,
                             Item(watchlist_store, movie_id))
    /\ UNCHANGED <<favorites_store, watchlist_store>>
    /\ UNCHANGED <<bvars, avars, cvars, pvars>>

\* POST /reset
reset_data ==
    /\ favorites_store' = ResetStore(favorites_store, SAMPLE_FAVORITES)
    /\ watchlist_store' = ResetStore(watchlist_store, SAMPLE_WATCHLIST)
    /\ ures' = Response("reset_data", None, 200,
                        [favorites_count |-> Len(favorites_store'),
                         watchlist_count |-> Len(watchlist_store')])
    /\ UNCHANGED <<bvars, avars, cvars, pvars>>

\* DELETE /clear
clear_all_data ==
    /\ favorites_store' = <<>>
    /\ watchlist_store' = <<>>
    /\ ures' = Response("clear_all_data", None, 200,
                        [favorites_count |-> 0, watchlist_count |-> 0])
    /\ UNCHANGED <<bvars, avars, cvars, pvars>>

NextUsers ==
    \/ get_favorites
    \/ \E payload \in Payloads : add_favorite(payload)
    \/ \E movie_id \in PathIds : delete_favorite(movie_id)
    \/ \E movie_id \in PathIds : get_favorite(movie_id)
    \/ get_watchlist
    \/ \E payload \in Payloads : add_to_watchlist(payload)
    \/ \E movie_id \in PathIds : delete_from_watchlist(movie_id)
    \/ \E movie_id \in PathIds : get_watchlist_item(movie_id)
    \/ reset_data
    \/ clear_all_data

----------------------------------------------------------------------------
(***************************************************************************)
(* Specifications: each subsystem runs with the others at rest.            *)
(***************************************************************************)

\* the circuit breaker under concurrent callers
\* the client at rest, the cache off (settings.CACHE_ENABLED = False)
InitClientIdle == InitClient /\ cache_enabled = FALSE

\* nothing calls the wrappers or the cache directly
InitDirectIdle == InitKeysIdle /\ InitCacheIdle /\ InitUsers

InitSpec == InitBreaker /\ InitAgg /\ InitClientIdle /\ InitDirectIdle
Spec == InitSpec /\ [][NextBreaker]_vars

\* the breaker of the TMDB client: CircuitBreaker("tmdb-api"), enabled
InitClientBreaker ==
    /\ InitBreaker
    /\ cbEnabled = TRUE
    /\ failure_threshold = CtorThreshold(0)
    /\ timeout = CtorTimeout(0)

\* one aggregation request with every outcome of its fan-out calls
InitSpecAgg == InitClientBreaker /\ InitAgg /\ InitClientIdle /\ InitDirectIdle
SpecAgg == InitSpecAgg /\ [][NextAgg]_vars

\* calls of the TMDB client through its cache and its breaker
InitSpecClient == InitClientBreaker /\ InitAgg /\ InitClient /\ InitDirectIdle
SpecClient == InitSpecClient /\ [][NextClient]_vars

\* key derivation over pairs of wrapper calls
InitSpecKeys ==
    /\ InitClientBreaker /\ InitAgg /\ InitClientIdle /\ InitKeys /\ InitCacheIdle
    /\ InitUsers
SpecKeys == InitSpecKeys /\ [][NextKeys]_vars

\* the connected cache under concurrent direct get, set and delete calls as
\* time passes
InitSpecCache ==
    InitClientBreaker /\ InitAgg /\ InitKeysIdle /\ InitCache /\ InitUsers
SpecCache == InitSpecCache /\ [][NextCache]_vars

\* the cache from its construction: connect, and its failure, around the
\* direct calls
InitSpecConnect ==
    InitClientBreaker /\ InitAgg /\ InitKeysIdle /\ InitConnect /\ InitUsers
SpecConnect == InitSpecConnect /\ [][NextConnect]_vars

\* the breaker with its configuration flag switched at run time
NextConfig ==
    \/ NextBreaker
    \/ \E b \in BOOLEAN : Configure(b)
\* CircuitBreaker(name, failure_threshold=2, timeout=2), the flag on as in
\* config.py until it is switched
InitSpecConfig ==
    /\ InitSpec
    /\ cbEnabled = TRUE
    /\ failure_threshold = CtorThreshold(2)
    /\ timeout = CtorTimeout(2)
SpecConfig == InitSpecConfig /\ [][NextConfig]_vars

\* the breaker when every awaited operation returns or raises in the end
\* (call, line 53: the await completes) and the clock advances
Completion == \A c \in Callers : WF_vars(OpSucceeds(c) \/ OpFails(c))
\* CircuitBreaker(name, failure_threshold=2, timeout=1 or 2): timeouts that
\* elapse while the clock runs
InitSpecRecovery ==
    /\ InitSpec
    /\ failure_threshold = CtorThreshold(2)
    /\ timeout \in {CtorTimeout(1), CtorTimeout(2)}
SpecRecovery ==
    InitSpecRecovery /\ [][NextBreaker]_vars /\ WF_vars(Tick) /\ Completion

\* one aggregation request on the event loop: a coroutine handed to gather is
\* started, and the endpoint is resumed once gather has every outcome
Scheduling ==
    /\ \A t \in TaskNames : WF_vars(TaskRun(t))
    /\ WF_vars(AggRespond)
SpecAggLive == InitSpecAgg /\ [][NextAgg]_vars /\ Scheduling

\* _make_request with every kind of request: cacheable, without a cache
\* key, and not GET
SpecDirect == InitSpecClient /\ [][NextDirect]_vars

\* the mock user service serving one request after another
InitSpecUsers == InitSpecAgg
SpecUsers == InitSpecUsers /\ [][NextUsers]_vars

----------------------------------------------------------------------------
(***************************************************************************)
(* Circuit breaker claims                                                  *)
(***************************************************************************)

\* C1: after failure_threshold or more consecutive failed calls on an enabled
\* breaker, the breaker is OPEN once no call is running, it is OPEN for as long
\* as open_timeout has not elapsed since the last recorded failure, and every
\* call arriving in that window is rejected without the operation being invoked.
C1_OpenAfterThreshold ==
    (cbEnabled /\ streak >= failure_threshold) =>
        /\ (Running = {} \/ Early) => state = OPEN
        /\ ev.kind = "admit" => ~ev.early
        /\ ev.kind = "reject" => ev.caller \notin Running

C1_Witness ==
    /\ cbEnabled
    /\ streak >= failure_threshold
    /\ failure_count > failure_threshold
    /\ state = OPEN
    /\ ev.kind = "reject"
    /\ ev.early

\* C2 (as claimed): the call that moves the breaker OPEN -> HALF_OPEN is invoked;
\* when it succeeds the breaker is CLOSED with failure_count 0, when it fails the
\* breaker is OPEN with the failure time recorded.
C2_ProbeDecides ==
    cbEnabled =>
        /\ (ev.kind = "admit" /\ ev.probe) =>
               (state = HALF_OPEN /\ ev.caller \in Running)
        /\ (ev.kind = "success" /\ ev.probe) =>
               (state = CLOSED /\ failure_count = 0)
        /\ (ev.kind = "failure" /\ ev.probe) =>
               (state = OPEN /\ last_failure_time # None)

\* C3 (as claimed): between the OPEN -> HALF_OPEN transition and the outcome of
\* the probe, no other caller gets its operation invoked.
C3_SingleProbe == cbEnabled => duringProbe = {}

\* C4: the failure outcomes of calls that were running together are all counted:
\* after K back-to-back failure outcomes failure_count has grown by exactly K,
\* and the breaker is OPEN whenever the count has reached the threshold.
C4_NoLostUpdate ==
    (cbEnabled /\ ev.kind = "failure") =>
        /\ failure_count = burstBase + burst
        /\ failure_count >= failure_threshold => state = OPEN

C4_Witness ==
    /\ cbEnabled
    /\ ev.kind = "failure"
    /\ burst >= 2
    /\ burstBase = 0
    /\ state = OPEN

----------------------------------------------------------------------------
(***************************************************************************)
(* Aggregation claims                                                      *)
(***************************************************************************)

Responded == resp # NoResp
PrimaryNames(ep) == IF ep = "complete" THEN {"primary", "trending"} ELSE {"primary"}
PrimaryFailed == \E t \in PrimaryNames(areq.ep) : IsException(tasks[t].out)
FavoritesFailed == tasks["favorites"].dep.kind = "raise"
WatchlistFailed == tasks["watchlist"].dep.kind = "raise"

\* the annotated items of a success response, and the primary items they come from
AnnotatedItems ==
    CASE areq.ep = "feed" -> resp.movies
      [] areq.ep = "search" -> resp.results
      [] areq.ep = "complete" -> resp.popular_movies \o resp.trending_movies
      [] OTHER -> <<>>
PrimaryItems ==
    CASE areq.ep = "complete" ->
             Take(tasks["primary"].out.val.results, ListLimit)
                 \o Take(tasks["trending"].out.val.results, ListLimit)
      [] areq.ep \in {"feed", "search"} -> tasks["primary"].out.val.results
      [] OTHER -> <<>>
ItemsPresent ==
    /\ Len(AnnotatedItems) = Len(PrimaryItems)
    /\ \A i \in DOMAIN PrimaryItems : AnnotatedItems[i].id = PrimaryItems[i].id
    /\ areq.ep = "details" => resp.id = tasks["primary"].out.val.id

\* the response models accept what the primary calls returned: the body of
\* the details with the cast, crew and similar movies kept, every movie of a
\* feed or of a search, the movies kept of each list of the dashboard that
\* arrived
Kept(list, n) == SubSeq(list, 1, IF Len(list) < n THEN Len(list) ELSE n)
HasAll(list, keys) == \A i \in DOMAIN list : keys \subseteq DOMAIN list[i]
PrimaryAccepted ==
    CASE areq.ep = "details" ->
             LET body == tasks["primary"].out.val
             IN /\ {"id", "title"} \subseteq DOMAIN body
                /\ HasAll(Kept(body.credits.cast, CastLimit),
                          {"id", "name", "character"})
                /\ HasAll(Kept(body.credits.crew, CastLimit),
                          {"id", "name", "job", "department"})
                /\ HasAll(Kept(body.similar.results, SimilarLimit),
                          {"id", "title"})
      [] areq.ep = "complete" ->
             \A t \in {"primary", "trending"} :
                 IsException(tasks[t].out)
                     \/ HasAll(Kept(tasks[t].out.val.results, ListLimit),
                               {"id", "title"})
      [] OTHER -> HasAll(tasks["primary"].out.val.results, {"id", "title"})

FavoritesDefault ==
    /\ \A i \in DOMAIN AnnotatedItems :
           ~AnnotatedItems[i].is_favorite /\ AnnotatedItems[i].user_rating = None
    /\ areq.ep = "details" =>
           ~resp.user_data.is_favorite /\ resp.user_data.user_rating = None
    /\ areq.ep = "feed" => resp.favorites_count = 0
    /\ areq.ep = "complete" => resp.stats.total_favorites = 0

WatchlistDefault ==
    /\ \A i \in DOMAIN AnnotatedItems : ~AnnotatedItems[i].is_in_watchlist
    /\ areq.ep = "details" => ~resp.user_data.is_in_watchlist
    /\ areq.ep = "feed" => resp.watchlist_count = 0
    /\ areq.ep = "complete" => resp.stats.total_watchlist = 0

\* C5 (as claimed): on every aggregation endpoint a failed primary content call
\* makes the response a hard failure (500), whatever favorites and watchlist
\* did. Feed, details and search raise the 500 themselves; the complete
\* dashboard replaces the failed list by an empty one (lines 265-272) and
\* answers 200.
C5_PrimaryFailureIsHard == (Responded /\ PrimaryFailed) => resp.status = 500

\* C6 (as claimed): with the primary call succeeded with content the response
\* models accept and favorites and/or watchlist failed, the response is a
\* success, holds every primary item, and carries the default annotations and a
\* zero count for the failed source.
C6_SecondaryFailureDegrades ==
    (/\ Responded /\ ~PrimaryFailed /\ PrimaryAccepted
     /\ (FavoritesFailed \/ WatchlistFailed)) =>
        /\ resp.status = 200
        /\ ItemsPresent
        /\ FavoritesFailed => FavoritesDefault
        /\ WatchlistFailed => WatchlistDefault

\* C7: every fan-out call is issued before any has run or finished, the outcome
\* of one call leaves its siblings as they are, an outcome once reached stays,
\* and the response exists only once every call has an outcome.
C7_JoinAfterAll ==
    /\ [](Responded => \A t \in FanOut(areq.ep) : tasks[t].st = "done")
    /\ []((\E t \in TaskNames : tasks[t].st \in {"running", "done"}) =>
              \A u \in FanOut(areq.ep) : tasks[u].st # "none")
    /\ [][\A t \in TaskNames :
              /\ (tasks[t].st # "done" /\ tasks'[t].st = "done") =>
                     \A u \in TaskNames \ {t} : tasks'[u] = tasks[u]
              /\ tasks[t].st = "done" => tasks'[t] = tasks[t]]_vars

C7_Witness ==
    /\ Responded
    /\ areq.ep = "complete"
    /\ IsException(tasks["primary"].out)
    /\ ~IsException(tasks["trending"].out)
    /\ tasks["favorites"].dep.kind = "ok"
    /\ FavoritesFailed = FALSE
    /\ WatchlistFailed
    /\ resp.status = 200
    /\ Len(resp.trending_movies) = 2

----------------------------------------------------------------------------
(***************************************************************************)
(* Dependency client claims                                                *)
(***************************************************************************)

\* the unexpired text under the key of the call r is reading the cache for
HeldFor(r) == StoreGet(store, KeyOf(creq[r].call), now)

\* C8 (as claimed): the store answers the cache.get of a GET with a cache_key
\* with the unexpired value its key holds; when cache.get returns such a
\* value, empty payload included, the client returns that value and the
\* breaker's state, failure_count and last_failure_time stay as they were,
\* whatever the breaker state.
C8_HitBypassesBreaker ==
    [][\A r \in Reqs :
          /\ (/\ creq[r].pc = "get"
              /\ creq'[r].pc = "got"
              /\ ~IsException(creq'[r].reply))
             => creq'[r].reply =
                    Value(IF HeldFor(r) = None THEN None
                          ELSE Some(Loads(HeldFor(r)[1])))
          /\ (/\ creq[r].pc = "got"
              /\ creq'[r].pc # "got"
              /\ ~IsException(creq[r].reply)
              /\ creq[r].reply.val # None)
             => /\ cev'.outcome = "return"
                /\ cev'.value = creq[r].reply.val[1]
                /\ state' = state
                /\ failure_count' = failure_count
                /\ last_failure_time' = last_failure_time]_vars

\* C9: the network call is entered only by a step in which the breaker admits
\* the call, its failure is counted by the breaker, and a successful result of
\* a GET with a cache_key is returned only by the step that resumes the
\* request from cache.set, after the store has executed the write: when the
\* write works the store then holds the result under the key with expiry
\* now + CACHE_TTL, and no other key is touched.
C9_MissThroughBreakerThenStored ==
    [][\A r \in Reqs :
          LET call == creq[r].call IN
          /\ (creq[r].pc # "net" /\ creq'[r].pc = "net") =>
                 /\ cbEnabled =>
                        Admission(state, now, last_failure_time, timeout) # "reject"
                 /\ cev'.outcome = "invoke"
          /\ (creq[r].pc = "net" /\ creq'[r].pc # "net" /\ cbEnabled) =>
                 \/ /\ cev'.outcome = "raise"
                    /\ failure_count' = failure_count + 1
                    /\ last_failure_time' = Some(now)
                 \/ /\ cev'.outcome \in {"suspend", "return"}
                    /\ failure_count' = CountOnSuccess(state, failure_count)
          /\ (creq[r].pc = "net" /\ creq'[r].pc = "idle"
                  /\ cev'.outcome = "return") =>
                 ~(Cacheable(Request(call))
                   /\ CacheUsable(cache_enabled, redis_client))
          /\ (creq[r].pc = "set" /\ creq'[r].pc # "set") =>
                 /\ creq'[r].pc = "stored"
                 /\ creq'[r].reply = Value(None) =>
                        store'[KeyOf(call)] =
                            [present |-> TRUE, text |-> Dumps(creq[r].result),
                             exp |-> now + CACHE_TTL]
                 /\ IsException(creq'[r].reply) => store' = store
                 /\ \A k \in Keys \ {KeyOf(call)} : store'[k] = store[k]
          /\ (creq[r].pc = "stored" /\ creq'[r].pc # "stored") =>
                 /\ cev'.outcome = "return"
                 /\ cev'.value = creq[r].result
                 /\ cev'.ok = ~IsException(creq[r].reply)
                 /\ store' = store]_vars

C9_Witness ==
    /\ cev.kind = "set"
    /\ cev.ok
    /\ cev.outcome = "return"
    /\ cev.value = Body(Request(cev.call))
    /\ store[KeyOf(cev.call)].present
    /\ Loads(store[KeyOf(cev.call)].text) = cev.value
    /\ store[KeyOf(cev.call)].exp > CACHE_TTL
    /\ failure_count > 0
    /\ state = CLOSED

\* C10 (as claimed): a value served from the cache was fetched for the same
\* outbound request (path and query parameters) as the call it is served to.
C10_NoCrossRequestHit ==
    (cev.kind = "get" /\ cev.outcome = "return") =>
        cev.value = Body(Request(cev.call))

----------------------------------------------------------------------------
(***************************************************************************)
(* Cache key and cache claims                                              *)
(***************************************************************************)

\* C11 (as claimed): two calls of one typed wrapper that send the same outbound
\* request (same method, path and query parameters) derive the same cache key.
C11_SameRequestSameKey ==
    (/\ kreqs # NoRequests
     /\ kcalls[1].fn = kcalls[2].fn
     /\ Outbound(kreqs[1]) = Outbound(kreqs[2]))
    => kreqs[1].cache_key = kreqs[2].cache_key

\* C12 (as claimed): with the cache off a cacheable call is handed to the
\* breaker at once and invoked unless the breaker rejects it, every time; with
\* the cache on and connected, a call identical to the call completed just
\* before, whose stored response has not expired, is answered from the cache:
\* the dependency is not invoked a second time.
C12_SecondServedFromCache ==
    [][/\ (/\ cev'.kind = "start"
            /\ cev' # cev
            /\ Cacheable(Request(cev'.call))
            /\ ~CacheUsable(cache_enabled, redis_client))
           => /\ cev'.outcome \in {"invoke", "reject"}
              /\ cev'.outcome = "reject" =>
                     Admission(state, now, last_failure_time, timeout) = "reject"
       /\ \A r \in Reqs :
              (/\ creq[r].pc = "got"
               /\ creq'[r].pc # "got"
               /\ ~IsException(creq[r].reply)
               /\ creq[r].reply.val # None
               /\ cev.prev = creq[r].call)
              => cev'.outcome = "return"]_vars

\* what a read of key at time t must return, by the sets and deletes that
\* worked: the value set last, until its expiry
Expected(key, t) ==
    IF written[key].present /\ t < written[key].exp
    THEN Some(written[key].value)
    ELSE None

\* C13 (as claimed): on an enabled, connected cache with a working store, a
\* get is answered absent for a key never set (or deleted) and for an entry
\* whose expiry has been reached at the instant the store reads it, and
\* otherwise exactly the value handed to the last set the store executed on
\* that key, unchanged; the caller is resumed with that answer. What comes
\* back is json.loads(json.dumps(value)): the list [1, 2] for the tuple (1, 2),
\* {"550": x} for {550: x}.
C13_RoundTripAndExpiry ==
    [][\A c \in CacheCallers :
          /\ (/\ cio[c].pc = "sent" /\ cio[c].op = "get"
              /\ cio'[c].pc = "served" /\ ~IsException(cio'[c].reply))
             => cio'[c].reply = Value(Expected(cio[c].key, now))
          /\ (/\ cio[c].pc = "served" /\ cio[c].op = "get"
              /\ cio'[c].pc = "idle" /\ ~IsException(cio[c].reply))
             => /\ cop'.op = "get"
                /\ cop'.key = cio[c].key
                /\ cop'.ret = cio[c].reply.val]_vars

\* C14: no cache operation raises to its caller; a get during which the store
\* fails returns absent, as on a miss, also when an unexpired value is stored.
C14_NeverFailsCaller ==
    /\ ~cop.raised
    /\ (cop.op = "get" /\ cop.contacted /\ ~cop.ok) => cop.ret = None

C14_Witness ==
    /\ cop.op = "get"
    /\ cop.contacted
    /\ ~cop.ok
    /\ ~cop.raised
    /\ cop.ret = None
    /\ Expected(cop.key, now) = Some(EmptyPayload)

\* C15: an operation called while the cache is disabled returns at once
\* without sending anything to the store (a get returns absent, nothing
\* raises), so the store changes only by commands sent before the cache was
\* switched off; a cache disabled by configuration leaves the store as it
\* found it.
C15_DisabledIsInert ==
    /\ [][~cache_enabled =>
              /\ \A c \in CacheCallers :
                     cio[c].pc = "idle" => cio'[c].pc = "idle"
              /\ (\A c \in CacheCallers : cio[c].pc # "sent") => store' = store
              /\ (cop' # cop /\ cio' = cio /\ cop'.op # "connect") =>
                     (~cop'.contacted /\ cop'.ret = None /\ ~cop'.raised)]_vars
    /\ []((~cache_enabled /\ redis_client = None) =>
              (written = WrittenOf(store) /\ cio = [c \in CacheCallers |-> NoCmd]))

C15_Witness ==
    /\ ~cache_enabled
    /\ cop.op = "get"
    /\ cop.key = KeyOf(GetMovieDetails(1, <<>>))
    /\ ~cop.contacted
    /\ cop.ret = None
    /\ store[cop.key] = LeftOver
    /\ now < LeftOver.exp

----------------------------------------------------------------------------
(***************************************************************************)
(* Circuit breaker claims: state invariants and frames                     *)
(***************************************************************************)

\* C16 (as claimed): an enabled breaker is OPEN only while open_timeout has not
\* elapsed since the last recorded failure.
C16_OpenOnlyInWindow ==
    (cbEnabled /\ state = OPEN) => now - last_failure_time[1] < timeout

\* C16 (amended): the breaker enters or stays OPEN on a failure with
\* last_failure_time set to the current time; it rejects a call only while
\* open_timeout has not elapsed since then; a call arriving at an OPEN breaker
\* is admitted only once the timeout has elapsed, and moves it to HALF_OPEN.
\* With no call arriving the state stays OPEN past the timeout.
C16_OpenRejectsOnlyInWindow ==
    /\ [][(cbEnabled /\ state' = OPEN
             /\ (state # OPEN \/ failure_count' # failure_count))
            => last_failure_time' = Some(now')]_vars
    /\ [][(cbEnabled /\ ev'.kind = "reject" /\ ev' # ev)
            => /\ state = OPEN
               /\ now - last_failure_time[1] < timeout
               /\ state' = OPEN]_vars
    /\ [][(cbEnabled /\ ev'.kind = "admit" /\ ev' # ev /\ state = OPEN)
            => /\ now - last_failure_time[1] >= timeout
               /\ state' = HALF_OPEN]_vars

C16_Witness ==
    /\ cbEnabled
    /\ ev.kind = "admit"
    /\ ev.probe
    /\ state = HALF_OPEN
    /\ now - last_failure_time[1] > timeout

\* C17: every step that takes the breaker from OPEN or HALF_OPEN to CLOSED
\* leaves failure_count at 0; the count then grows by one per failure and by
\* nothing else, and the breaker is OPEN only with the count at the threshold
\* or above, so it takes failure_threshold further failures to open it again.
C17_CloseResetsCount ==
    /\ [][(state \in {OPEN, HALF_OPEN} /\ state' = CLOSED)
            => failure_count' = 0]_vars
    /\ [][failure_count' > failure_count
            => (failure_count' = failure_count + 1 /\ ev'.kind = "failure")]_vars
    /\ []((cbEnabled /\ state = OPEN) => failure_count >= failure_threshold)

C17_Witness ==
    /\ cbEnabled
    /\ ev.kind = "success"
    /\ ev.probe
    /\ state = CLOSED
    /\ failure_count = 0
    /\ last_failure_time # None

\* C18: the success of a call on a CLOSED breaker leaves state, failure_count
\* and last_failure_time as they were; every failure adds one to the count; and
\* the breaker is not CLOSED once the count has reached the threshold, so
\* failures separated by successes open it just as consecutive ones do.
C18_SuccessOnClosedIsFrame ==
    /\ [][\A c \in Callers :
              (/\ cbEnabled
               /\ pc[c] = "running" /\ pc'[c] = "idle"
               /\ ev'.kind = "success"
               /\ state = CLOSED)
              => /\ state' = CLOSED
                 /\ failure_count' = failure_count
                 /\ last_failure_time' = last_failure_time]_vars
    /\ [][\A c \in Callers :
              (/\ cbEnabled
               /\ pc[c] = "running" /\ pc'[c] = "idle"
               /\ ev'.kind = "failure")
              => failure_count' = failure_count + 1]_vars
    /\ []((cbEnabled /\ failure_count >= failure_threshold) => state # CLOSED)

C18_Witness ==
    /\ cbEnabled
    /\ ev.kind = "failure"
    /\ state = OPEN
    /\ failure_count = failure_threshold
    /\ streak > 0
    /\ streak < failure_threshold

\* C19: while the configuration flag disables the breaker, a call is never
\* rejected: it runs the operation directly, whatever the breaker's state (OPEN
\* within its window included), and neither its start nor its outcome, success
\* or failure, changes state, failure_count or last_failure_time.
C19_DisabledBypasses ==
    /\ [][\A c \in Callers :
              (~cbEnabled /\ pc[c] = "idle" /\ ev' # ev /\ ev'.caller = c)
              => /\ ev'.kind = "admit"
                 /\ pc'[c] = "running"
                 /\ mode'[c] = "bypass"
                 /\ UNCHANGED <<state, failure_count, last_failure_time>>]_vars
    /\ [][\A c \in Callers :
              (pc[c] = "running" /\ pc'[c] = "idle" /\ mode[c] = "bypass")
              => /\ ev'.kind \in {"success", "failure"}
                 /\ ev'.caller = c
                 /\ UNCHANGED <<state, failure_count, last_failure_time>>]_vars

C19_Witness ==
    /\ ~cbEnabled
    /\ state = OPEN
    /\ Admission(state, now, last_failure_time, timeout) = "reject"
    /\ ev.kind = "failure"
    /\ mode[ev.caller] = "bypass"
    /\ burst = 1
    /\ failure_count = burstBase

\* C20: reset(), in whatever state and with or without calls in flight, leaves
\* the breaker CLOSED with failure_count 0 and no last_failure_time, and a call
\* that arrives next is admitted.
C20_ResetClosesAndAdmits ==
    /\ [](ev.kind = "reset"
             => /\ state = CLOSED
                /\ failure_count = 0
                /\ last_failure_time = None
                /\ Admission(state, now, last_failure_time, timeout) = "pass")
    /\ [][\A c \in Callers :
              (/\ ev.kind = "reset"
               /\ pc[c] = "idle"
               /\ ev' # ev
               /\ ev'.caller = c)
              => /\ ev'.kind = "admit"
                 /\ pc'[c] = "running"]_vars

C20_Witness ==
    /\ ev.kind = "reset"
    /\ probeOut # {}
    /\ state = CLOSED
    /\ failure_count = 0
    /\ last_failure_time = None
    /\ \E c \in Callers : pc[c] = "idle"

----------------------------------------------------------------------------
(***************************************************************************)
(* Outcomes of calls and of aggregation                                    *)
(***************************************************************************)

\* C21: when the operation of a call admitted by the enabled breaker answers,
\* a result is handed back exactly as the operation returned it; a failure of
\* any kind (non-success status, transport error, timeout) adds exactly one to
\* failure_count, sets last_failure_time to the current time and reaches the
\* caller as the very exception the operation raised.
C21_OutcomePropagated ==
    [][\A r \in Reqs :
          (cbEnabled /\ creq[r].pc = "net" /\ creq'[r].pc # "net")
          => /\ cev'.kind = "net"
             /\ cev'.call = creq[r].call
             /\ cev'.value = cev'.op.val
             /\ IF IsException(cev'.op)
                THEN /\ cev'.outcome = "raise"
                     /\ cev'.value \in DependencyErrors
                     /\ failure_count' = failure_count + 1
                     /\ last_failure_time' = Some(now)
                ELSE /\ cev'.outcome \in {"return", "suspend"}
                     /\ creq'[r].pc = "set" => creq'[r].result = cev'.op.val]_vars

C21_Witness ==
    /\ cbEnabled
    /\ cev.kind = "net"
    /\ cev.outcome = "raise"
    /\ cev.op = Failure(ReadTimeout)
    /\ cev.value = ReadTimeout
    /\ failure_count >= 2
    /\ now > 0
    /\ last_failure_time = Some(now)

\* the mappings the join hands to the merge, and the primary items merged
GatheredFavorites == OrEmpty(tasks["favorites"].out)
GatheredWatchlist == OrEmpty(tasks["watchlist"].out)
MergedItems ==
    CASE areq.ep = "complete" ->
             ListOrEmpty(tasks["primary"].out) \o ListOrEmpty(tasks["trending"].out)
      [] areq.ep \in {"feed", "search"} -> tasks["primary"].out.val.results
      [] OTHER -> <<>>

\* C22: in every success response each primary item appears with its own
\* fields unchanged and annotated is_favorite = (id is a key of favorites),
\* is_in_watchlist = (id is a key of watchlist), user_rating = the rating of
\* favorites[id] when the id is a key and absent otherwise.
C22_AnnotationPerItem ==
    (Responded /\ resp.status = 200 /\ areq.ep \in {"feed", "search", "complete"})
    => /\ Len(AnnotatedItems) = Len(MergedItems)
       /\ \A i \in DOMAIN MergedItems :
              LET item == AnnotatedItems[i]
                  src == MergedItems[i]
              IN /\ item.id = src.id
                 /\ item.title = src.title
                 /\ item.is_favorite = (src.id \in DOMAIN GatheredFavorites)
                 /\ item.is_in_watchlist = (src.id \in DOMAIN GatheredWatchlist)
                 /\ item.user_rating =
                        (IF src.id \in DOMAIN GatheredFavorites
                         THEN GatheredFavorites[src.id].rating ELSE None)

\* items [1, 2], favorites {1: rating 5}, watchlist {2}
C22_Witness ==
    /\ Responded
    /\ resp.status = 200
    /\ areq.ep = "feed"
    /\ tasks["primary"].out.val.results = <<Movie(1), Movie(2)>>
    /\ tasks["favorites"].dep.items = <<Fav(1, Some(5))>>
    /\ tasks["watchlist"].dep.items = <<Wl(2)>>
    /\ resp.movies =
           << [id |-> 1, title |-> "movie-1", is_favorite |-> TRUE,
               is_in_watchlist |-> FALSE, user_rating |-> Some(5)],
              [id |-> 2, title |-> "movie-2", is_favorite |-> FALSE,
               is_in_watchlist |-> TRUE, user_rating |-> None] >>

\* the favorites that carry a rating
RatedFavorites == {k \in DOMAIN GatheredFavorites : GatheredFavorites[k].rating # None}

\* C23: on the complete dashboard avg_rating is absent when no favorite carries
\* a rating (an empty favorites mapping included), and otherwise is the sum of
\* the present ratings over their number, a number that is never zero;
\* total_favorites and total_watchlist count the entries of the two mappings.
C23_AverageRating ==
    (Responded /\ areq.ep = "complete" /\ PrimaryAccepted)
    => /\ resp.status = 200
       /\ resp.stats.total_favorites = Cardinality(DOMAIN GatheredFavorites)
       /\ resp.stats.total_watchlist = Cardinality(DOMAIN GatheredWatchlist)
       /\ RatedFavorites = {} <=> resp.stats.avg_rating = None
       /\ RatedFavorites # {}
          => /\ resp.stats.avg_rating[1][2] = Cardinality(RatedFavorites)
             /\ resp.stats.avg_rating[1][2] > 0
             /\ resp.stats.avg_rating[1][1] =
                    SumRatings(GatheredFavorites, RatedFavorites)

\* ratings 5 and 4: sum 9 over 2, that is 4.5
C23_Witness ==
    /\ Responded
    /\ areq.ep = "complete"
    /\ tasks["favorites"].dep.items = <<Fav(1, Some(5)), Fav(2, Some(4))>>
    /\ resp.stats.total_favorites = 2
    /\ resp.stats.avg_rating = Some(<<9, 2>>)
    /\ 2 * resp.stats.avg_rating[1][1] = 9 * resp.stats.avg_rating[1][2]

\* C24: a failed request reaches the caller as an error whose class tells the
\* cause: a rejection by the breaker has a class that no failure of the
\* dependency is an instance of, a non-success response is an HTTPStatusError
\* carrying the status code, a transport failure is a TransportError.
C24_TypedErrors ==
    /\ cev.outcome = "reject"
       => /\ cev.value = RejectionError
          /\ \A e \in DependencyErrors : ~Catches(cev.value.type, e)
    /\ (cev.outcome = "raise" /\ cev.op.val.type = "HTTPStatusError")
       => /\ cev.value.type = "HTTPStatusError"
          /\ cev.value.status = cev.op.val.status
          /\ ~Catches(cev.value.type, RejectionError)
    /\ (cev.outcome = "raise" /\ cev.op.val.type # "HTTPStatusError")
       => /\ Catches("TransportError", cev.value)
          /\ ~Catches("TransportError", RejectionError)
          /\ ~Catches("TransportError", HTTPStatusError(404))

\* C25: the callers of the breaker are the catalog calls of all aggregation
\* requests (tmdb_client and its circuit_breaker exist once). A failure seen by
\* one caller right after a failure seen by another adds to the same
\* failure_count; and while the count has reached the threshold and the timeout
\* has not elapsed since the last failure, the breaker is OPEN and a call of any
\* caller is rejected without its operation being invoked.
C25_SharedBreaker ==
    /\ [][(/\ cbEnabled
            /\ ev.kind = "failure" /\ ev'.kind = "failure"
            /\ ev'.caller # ev.caller)
           => failure_count' = failure_count + 1]_vars
    /\ []((cbEnabled /\ failure_count >= failure_threshold /\ Early)
             => state = OPEN)
    /\ [][\A c \in Callers :
              (/\ cbEnabled
               /\ failure_count >= failure_threshold
               /\ Early
               /\ pc[c] = "idle"
               /\ ev' # ev
               /\ ev'.caller = c)
              => /\ ev'.kind = "reject"
                 /\ pc'[c] = "idle"
                 /\ UNCHANGED <<state, failure_count, last_failure_time>>]_vars

C25_Witness ==
    /\ cbEnabled
    /\ failure_threshold >= 2
    /\ failure_count = failure_threshold
    /\ burst = failure_threshold
    /\ burstBase = 0
    /\ Early
    /\ state = OPEN
    /\ ev.kind = "reject"
    /\ pc[ev.caller] = "idle"

\* C26: the requested page goes to the primary call only (favorites and
\* watchlist are called without a page), the response names the requested page
\* as its current page, and total_pages and total_results of the feed and of
\* the enriched search are the primary dependency's values.
C26_Pagination ==
    /\ areq.ep \in {"feed", "search"}
       => /\ tasks["primary"].args.page = Some(areq.page)
          /\ tasks["favorites"].args = Args("get_favorites", None)
          /\ tasks["watchlist"].args = Args("get_watchlist", None)
    /\ areq.ep \in {"details", "complete"}
       => /\ tasks["favorites"].args.page = None
          /\ tasks["watchlist"].args.page = None
    /\ (Responded /\ resp.status = 200 /\ areq.ep \in {"feed", "search"})
       => /\ (IF areq.ep = "feed" THEN resp.current_page ELSE resp.page) = areq.page
          /\ resp.total_pages = tasks["primary"].dep.val.total_pages
          /\ resp.total_results = tasks["primary"].dep.val.total_results

C26_Witness ==
    /\ Responded
    /\ resp.status = 200
    /\ areq.ep = "feed"
    /\ areq.page = 2
    /\ tasks["primary"].args = Args("get_popular_movies", Some(2))
    /\ tasks["favorites"].dep.kind = "ok"
    /\ tasks["favorites"].args.page = None
    /\ resp.current_page = 2
    /\ resp.total_pages = 3
    /\ resp.total_results = 60

\* out is the leading part of src, in src's order, n entries long at most
IsPrefix(out, src, n) ==
    /\ Len(out) = (IF Len(src) < n THEN Len(src) ELSE n)
    /\ \A i \in 1..Len(out) : out[i] = src[i]
\* the same for annotated items, compared by their primary fields
IsItemPrefix(out, src, n) ==
    /\ Len(out) = (IF Len(src) < n THEN Len(src) ELSE n)
    /\ \A i \in 1..Len(out) : out[i].id = src[i].id /\ out[i].title = src[i].title

\* C27: every truncated list of a response is the leading prefix of the list
\* the dependency returned, in the dependency's order: cast and crew up to 10,
\* similar movies up to 6, popular and trending up to 12; a shorter list is
\* returned whole.
C27_TruncationIsPrefix ==
    /\ (Responded /\ areq.ep = "details" /\ resp.status = 200)
       => /\ IsPrefix(resp.cast, tasks["primary"].dep.val.credits.cast, CastLimit)
          /\ IsPrefix(resp.crew, tasks["primary"].dep.val.credits.crew, CastLimit)
          /\ IsPrefix(resp.similar_movies,
                      tasks["primary"].dep.val.similar.results, SimilarLimit)
    /\ (Responded /\ areq.ep = "complete" /\ resp.status = 200)
       => /\ ~IsException(tasks["primary"].dep)
             => IsItemPrefix(resp.popular_movies,
                             tasks["primary"].dep.val.results, ListLimit)
          /\ ~IsException(tasks["trending"].dep)
             => IsItemPrefix(resp.trending_movies,
                             tasks["trending"].dep.val.results, ListLimit)

C27_Witness ==
    /\ Responded
    /\ areq.ep = "details"
    /\ resp.status = 200
    /\ Len(tasks["primary"].dep.val.credits.cast) > CastLimit
    /\ Len(resp.cast) = CastLimit
    /\ resp.cast[CastLimit] = tasks["primary"].dep.val.credits.cast[CastLimit]
    /\ Len(tasks["primary"].dep.val.similar.results) > SimilarLimit
    /\ Len(resp.similar_movies) = SimilarLimit

SecondaryNames == {"favorites", "watchlist"}
\* the preferences dependency failed the helper: the call raised, or an entry
\* of the list has no movie_id
HelperFailed(t) ==
    \/ tasks[t].dep.kind = "raise"
    \/ \E i \in DOMAIN tasks[t].dep.items : tasks[t].dep.items[i].movie_id = None

\* C28: whatever the preferences dependency does, a fetch helper hands the join
\* a mapping and never an exception: the empty mapping when the call raised,
\* when the response lacks the list or when an entry lacks movie_id, and
\* otherwise the entries of the list keyed by movie_id.
C28_SecondaryAbsorbed ==
    \A t \in SecondaryNames :
        tasks[t].st = "done"
        => /\ ~IsException(tasks[t].out)
           /\ (HelperFailed(t) \/ tasks[t].dep.kind = "nokey")
              => tasks[t].out.val = EmptyMap
           /\ ~HelperFailed(t)
              => /\ DOMAIN tasks[t].out.val =
                       {tasks[t].dep.items[i].movie_id[1] :
                           i \in DOMAIN tasks[t].dep.items}
                 /\ \A i \in DOMAIN tasks[t].dep.items :
                        \E j \in DOMAIN tasks[t].dep.items :
                           /\ tasks[t].dep.items[j].movie_id
                                  = tasks[t].dep.items[i].movie_id
                           /\ tasks[t].out.val[tasks[t].dep.items[i].movie_id[1]]
                                  = tasks[t].dep.items[j]

C28_Witness ==
    /\ Responded
    /\ resp.status = 200
    /\ tasks["favorites"].dep.kind = "ok"
    /\ tasks["favorites"].dep.items = <<Fav(1, Some(5)), NoId>>
    /\ tasks["favorites"].out = Value(EmptyMap)
    /\ tasks["watchlist"].dep.kind = "raise"
    /\ tasks["watchlist"].out = Value(EmptyMap)

\* C29: a connect that cannot reach the store only switches the cache off
\* (the store and the caller are left alone), and a cache that is off stays off:
\* every get called from then on returns absent and every set and delete
\* called from then on does nothing, none of them sending anything to the
\* store or raising, also when the store would answer again.
C29_UnreachableStoreDisables ==
    /\ [][(cop'.op = "connect" /\ cop' # cop)
           => /\ ~cop'.raised
              /\ store' = store
              /\ ~cop'.ok => ~cache_enabled']_vars
    /\ [][~cache_enabled
           => /\ ~cache_enabled'
              /\ redis_client' = redis_client
              /\ cconn' = cconn
              /\ \A c \in CacheCallers :
                     cio[c].pc = "idle" => cio'[c] = cio[c]
              /\ (cop' # cop /\ cio' = cio)
                 => /\ ~cop'.contacted
                    /\ ~cop'.raised
                    /\ cop'.ret = None
                    /\ store' = store]_vars

C29_Witness ==
    /\ ~cache_enabled
    /\ redis_client # None
    /\ cop.op = "get"
    /\ ~cop.contacted
    /\ ~cop.raised
    /\ cop.ret = None
    /\ store[cop.key] = LeftOver
    /\ now < LeftOver.exp

\* C30: on an enabled, connected cache whose store answers, a delete(key) the
\* store executes removes the entry under key and leaves the entries under
\* the other keys as they are, and changes nothing when there is no entry
\* under key; a get the store answers for a key whose entry was deleted and
\* not set again is answered absent.
C30_DeleteRemoves ==
    [][/\ \A c \in CacheCallers :
             /\ (/\ cio[c].pc = "sent" /\ cio[c].op = "delete"
                 /\ cio'[c].pc = "served" /\ ~IsException(cio'[c].reply))
                => /\ ~store'[cio[c].key].present
                   /\ StoreGet(store', cio[c].key, now) = None
                   /\ \A k \in CacheKeys \ {cio[c].key} : store'[k] = store[k]
                   /\ ~store[cio[c].key].present => store' = store
             /\ (/\ cio[c].pc = "sent" /\ cio[c].op = "get"
                 /\ cio'[c].pc = "served" /\ ~IsException(cio'[c].reply)
                 /\ written[cio[c].key] = Deleted)
                => cio'[c].reply = Value(None)
       /\ \A k \in CacheKeys :
             (written[k] = Deleted /\ written'[k] # Deleted)
             => \E c \in CacheCallers :
                    /\ cio[c].pc = "sent" /\ cio[c].op = "set" /\ cio[c].key = k
                    /\ cio'[c].pc = "served"
                    /\ ~IsException(cio'[c].reply)]_vars

C30_Witness ==
    \E c \in CacheCallers :
        /\ cio[c].pc = "served"
        /\ cio[c].op = "get"
        /\ cio[c].reply = Value(None)
        /\ written[cio[c].key] = Deleted
        /\ \E k \in CacheKeys \ {cio[c].key} :
               written[k].present /\ now < written[k].exp /\ store[k].present

----------------------------------------------------------------------------
(***************************************************************************)
(* Recovery, termination and remaining frames                              *)
(***************************************************************************)

\* from some point on no operation fails, callers keep calling, and the
\* timeout since the last failure elapses again and again
OperationsSucceed == <>[][\A c \in Callers : ~OpFails(c)]_vars
CallersKeepCalling ==
    []<><<\E c \in Callers : CallAdmit(c) \/ CallReject(c)>>_vars
TimeAdvances == []<>(~Early)

\* C31: an enabled breaker detects recovery: once every invoked operation
\* succeeds, while callers keep calling and time advances, the breaker
\* reaches CLOSED and stays CLOSED, so that it rejects no call any more; it
\* stays neither OPEN nor HALF_OPEN forever.
C31_DetectsRecovery ==
    (cbEnabled /\ OperationsSucceed /\ CallersKeepCalling /\ TimeAdvances)
        => <>[](state = CLOSED
                /\ Admission(state, now, last_failure_time, timeout) # "reject")

\* a probe admitted after the timeout has just succeeded on a breaker that
\* had been opened by failures of two callers: the breaker is CLOSED again
C31_Witness ==
    /\ cbEnabled
    /\ state = CLOSED
    /\ failure_count = 0
    /\ last_failure_time # None
    /\ ~Early
    /\ ev.kind = "success"
    /\ ev.probe
    /\ Running = {}
    /\ failure_threshold = 2

\* every call of the fan-out completes, fails or times out in the end
DependenciesAnswer ==
    /\ \A t \in {"primary", "trending"} :
           WF_vars(\E o \in CatalogOutcomes(areq.ep, areq.movie_id) :
                      CatalogDone(t, o))
    /\ WF_vars(\E o \in PrefOutcomes(FavLists) : PrefDone("favorites", o))
    /\ WF_vars(\E o \in PrefOutcomes(WlLists) : PrefDone("watchlist", o))

\* C32: provided every fan-out call reaches an outcome, every aggregation
\* request is answered in the end (success or hard failure); and once every
\* call of the fan-out has its outcome, in whatever order they finished, the
\* join does not keep waiting: the response follows.
C32_EveryRequestAnswered ==
    /\ DependenciesAnswer => ((areq # Idle) ~> (resp # NoResp))
    /\ (areq # Idle /\ JoinReady(tasks, FanOut(areq.ep))) ~> (resp # NoResp)

\* the dashboard answered although its trending call and its favorites call
\* failed while the popular call and the watchlist call returned
C32_Witness ==
    /\ areq.ep = "complete"
    /\ resp # NoResp
    /\ \A t \in FanOut(areq.ep) : tasks[t].st = "done"
    /\ tasks["trending"].dep = Raised
    /\ tasks["primary"].dep # Raised
    /\ tasks["favorites"].dep.kind = "raise"
    /\ tasks["watchlist"].dep.kind = "ok"

----------------------------------------------------------------------------
(***************************************************************************)
(* Mock user service claims                                                *)
(***************************************************************************)

\* the movie_id of the last request, and whether the request was turned down
ReqId == ures.movie_id[1]
StoredOnce(d) ==
    \A i, j \in DOMAIN d : d[i].movie_id = d[j].movie_id => i = j

\* C33: a request of the mock user service that is rejected leaves both
\* stores as they were. Adding a movie_id already present answers 409 and the
\* entry stored first stays, so every id is stored at most once; deleting or
\* getting a movie_id that is not present answers 404; adding without a
\* movie_id answers 400.
C33_RejectedLeavesStores ==
    /\ [][ures'.status >= 400
            => UNCHANGED <<favorites_store, watchlist_store>>]_vars
    /\ [][(/\ ures'.op = "add_favorite"
            /\ ~Falsy(ures'.movie_id)
            /\ Has(favorites_store, ures'.movie_id[1]))
            => (/\ ures'.status = 409
                /\ Item(favorites_store', ures'.movie_id[1])
                       = Item(favorites_store, ures'.movie_id[1]))]_vars
    /\ [][(/\ ures'.op = "add_to_watchlist"
            /\ ~Falsy(ures'.movie_id)
            /\ Has(watchlist_store, ures'.movie_id[1]))
            => (/\ ures'.status = 409
                /\ Item(watchlist_store', ures'.movie_id[1])
                       = Item(watchlist_store, ures'.movie_id[1]))]_vars
    /\ [][(/\ ures'.op \in {"delete_favorite", "get_favorite"}
            /\ ~Has(favorites_store, ures'.movie_id[1]))
            => ures'.status = 404]_vars
    /\ [][(/\ ures'.op \in {"delete_from_watchlist", "get_watchlist_item"}
            /\ ~Has(watchlist_store, ures'.movie_id[1]))
            => ures'.status = 404]_vars
    /\ [][(/\ ures'.op \in {"add_favorite", "add_to_watchlist"}
            /\ ures'.movie_id = None)
            => ures'.status = 400]_vars
    /\ [](StoredOnce(favorites_store) /\ StoredOnce(watchlist_store))

\* a second POST for movie 550 was answered 409 while the store holds the
\* entry of an earlier POST (the sample entry had been deleted before)
C33_Witness ==
    /\ ures.op = "add_favorite"
    /\ ures.status = 409
    /\ ures.movie_id = Some(550)
    /\ Item(favorites_store, 550).title = Some("Se7en")
    /\ Len(favorites_store) = 3

\* C34: the total of a list endpoint is the number of entries stored; an
\* entry added with success is stored and a get returns it; an entry deleted
\* with success is absent and a get answers 404; reset leaves exactly the
\* sample favorites and the sample watchlist whatever was stored before; clear
\* leaves two empty stores.
C34_StoresFollowRequests ==
    /\ [](ures.op = "get_favorites"
            => (/\ ures.body.total = Len(favorites_store)
                /\ ures.body.total
                       = Cardinality({favorites_store[i].movie_id :
                                         i \in DOMAIN favorites_store})
                /\ ures.body.items = favorites_store))
    /\ [](ures.op = "get_watchlist"
            => (/\ ures.body.total = Len(watchlist_store)
                /\ ures.body.total
                       = Cardinality({watchlist_store[i].movie_id :
                                         i \in DOMAIN watchlist_store})
                /\ ures.body.items = watchlist_store))
    /\ []((ures.op = "add_favorite" /\ ures.status = 200)
            => (Has(favorites_store, ReqId)
                /\ Item(favorites_store, ReqId) = ures.body))
    /\ []((ures.op = "add_to_watchlist" /\ ures.status = 200)
            => (Has(watchlist_store, ReqId)
                /\ Item(watchlist_store, ReqId) = ures.body))
    /\ [][ures'.op = "get_favorite"
            => IF Has(favorites_store, ures'.movie_id[1])
               THEN /\ ures'.status = 200
                    /\ ures'.body = Item(favorites_store, ures'.movie_id[1])
               ELSE ures'.status = 404]_vars
    /\ [][ures'.op = "get_watchlist_item"
            => IF Has(watchlist_store, ures'.movie_id[1])
               THEN /\ ures'.status = 200
                    /\ ures'.body = Item(watchlist_store, ures'.movie_id[1])
               ELSE ures'.status = 404]_vars
    /\ []((ures.op = "delete_favorite" /\ ures.status = 200)
            => ~Has(favorites_store, ReqId))
    /\ []((ures.op = "delete_from_watchlist" /\ ures.status = 200)
            => ~Has(watchlist_store, ReqId))
    /\ [](ures.op = "reset_data"
            => (/\ favorites_store = SAMPLE_FAVORITES
                /\ watchlist_store = SAMPLE_WATCHLIST
                /\ ures.body.favorites_count = Len(SAMPLE_FAVORITES)
                /\ ures.body.watchlist_count = Len(SAMPLE_WATCHLIST)))
    /\ [](ures.op = "clear_all_data"
            => (favorites_store = <<>> /\ watchlist_store = <<>>))

\* the list endpoint reports three favorites after movie 550 was deleted
\* and movie 999 added
C34_Witness ==
    /\ ures.op = "get_favorites"
    /\ ures.body.total = 3
    /\ Has(favorites_store, 999)
    /\ Item(favorites_store, 999).poster_path = Some("/p.jpg")
    /\ ~Has(favorites_store, 550)

----------------------------------------------------------------------------
(***************************************************************************)
(* Remaining cache, breaker and client claims                              *)
(***************************************************************************)

\* C35: a set the store executed leaves the entry with expiry now + ttl
\* for every ttl the caller passed, ttl = 0 included, and with expiry now +
\* the configured default only when the ttl was omitted.
C35_ExpiryAsPassed ==
    [][\A c \in CacheCallers :
          (/\ cio[c].pc = "sent" /\ cio[c].op = "set"
           /\ cio'[c].pc = "served" /\ ~IsException(cio'[c].reply))
          => /\ store'[cio[c].key].present
             /\ store'[cio[c].key].exp
                    = now + (IF cio[c].ttl = None THEN CACHE_TTL
                             ELSE cio[c].ttl[1])]_vars

\* C36: on an enabled breaker with failure_threshold >= 1, whatever the
\* interleaving of admitted calls, outcomes, rejections and reset(): the state
\* is CLOSED exactly when failure_count < failure_threshold, so a failure
\* recorded while the breaker is HALF_OPEN always re-opens it; and an OPEN
\* breaker has a last_failure_time.
C36_StateMatchesCount ==
    /\ []((cbEnabled /\ failure_threshold >= 1)
            => (/\ (state = CLOSED) <=> (failure_count < failure_threshold)
                /\ state = OPEN => last_failure_time # None))
    /\ [][(/\ cbEnabled
            /\ state = HALF_OPEN
            /\ ev'.kind = "failure"
            /\ failure_count' # failure_count)
            => state' = OPEN]_vars

\* the probe of a breaker with threshold 2 failed and re-opened it: the count
\* has passed the threshold
C36_Witness ==
    /\ cbEnabled
    /\ failure_threshold = 2
    /\ ev.kind = "failure"
    /\ ev.probe
    /\ state = OPEN
    /\ failure_count = failure_threshold + 1
    /\ last_failure_time = Some(now)

\* C37: a call rejected by the open circuit leaves state, failure_count and
\* last_failure_time (and the timeout) as they were: a rejection is not
\* counted as a failure and does not move the time at which the next probe is
\* admitted.
C37_RejectionIsFrame ==
    [][ev'.kind = "reject"
        => UNCHANGED <<state, failure_count, last_failure_time, timeout,
                       failure_threshold>>]_vars

\* a call was rejected one tick after the failure that opened the breaker,
\* with the failure time still that of the failure
C37_Witness ==
    /\ cbEnabled
    /\ ev.kind = "reject"
    /\ state = OPEN
    /\ failure_count = failure_threshold
    /\ last_failure_time = Some(now - 1)
    /\ timeout = 2

\* C38: the breaker goes from HALF_OPEN to CLOSED by a success only when the
\* call that succeeded is the probe, the call admitted after the timeout had
\* elapsed; the success of a call admitted earlier does not close it.
C38_OnlyProbeCloses ==
    [][(state = HALF_OPEN /\ state' = CLOSED /\ ev'.kind = "success")
        => ev'.probe]_vars

\* the request of a call is a GET that carries a cache key
GetWithKey(call) ==
    Request(call).method = "GET" /\ Request(call).cache_key # None

\* C39: a client request that fails or is rejected writes nothing to the
\* cache: the step that raises leaves the store as it is, and the only steps
\* that change the store are the writes of the cache.set of a cacheable
\* request whose network call returned a value, which store that value under
\* the request's key. So a failure is never cached and never evicts an entry. A request that
\* is not GET or has no cache_key never reads or writes the cache.
C39_FailureLeavesCache ==
    /\ [][(cev' # cev /\ cev'.outcome \in {"raise", "reject"})
            => store' = store]_vars
    /\ [][\A r \in Reqs :
              (creq'[r].pc = "set" /\ creq[r].pc # "set")
              => /\ creq[r].pc = "net"
                 /\ ~IsException(cev'.op)
                 /\ creq'[r].result = cev'.op.val]_vars
    /\ [][store' # store
            => \E r \in Reqs :
                   /\ creq[r].pc = "set"
                   /\ creq'[r].pc = "stored"
                   /\ GetWithKey(creq[r].call)
                   /\ store' = [store EXCEPT ![KeyOf(creq[r].call)] =
                                    [present |-> TRUE,
                                     text |-> Dumps(creq[r].result),
                                     exp |-> now + CACHE_TTL]]]_vars
    /\ []((cev.kind # "init" /\ ~GetWithKey(cev.call))
            => (cev.kind \in {"start", "net"} /\ cev.outcome # "suspend"))
    /\ [](\A r \in Reqs : creq[r].pc \in {"get", "got", "set", "stored"}
                               => GetWithKey(creq[r].call))

\* get_movie_details(1) failed on the network after its cache read had
\* failed, and the entry stored for its key by an earlier call is still there
C39_Witness ==
    /\ cev.kind = "net"
    /\ cev.outcome = "raise"
    /\ cev.call = GetMovieDetails(1, <<>>)
    /\ store[KeyOf(cev.call)].present
    /\ store[KeyOf(cev.call)].text = Dumps(Body(Request(cev.call)))

\* C40: when the primary fetch succeeded with content the response models
\* accept, a feed or an enriched-details request is answered with success
\* whatever the preferences dependency returned, a favorite rated outside 1..5
\* for the requested movie included.
C40_PreferencesNeverFail ==
    (/\ Responded /\ areq.ep \in {"feed", "details"} /\ ~PrimaryFailed
     /\ PrimaryAccepted)
        => resp.status = 200

====
